---- MODULE Spec2Model ----
(***************************************************************************)
(* A model of the dword-granular PCI configuration space accessor          *)
(* (src/src/accessor.rs) and of the BAR decode / size probe built on it    *)
(* (src/src/headers.rs).                                                   *)
(*                                                                         *)
(* A u32 is the pair <<hi, lo>> of its 16-bit halves (TLC's integers are   *)
(* 32-bit signed, and the code uses 0xFFFFFFF0).  A value of a field type  *)
(* T is the sequence of its size_of::<T>() bytes in memory order; the      *)
(* target is little-endian, so a u32 field is its to_le_bytes image.       *)
(*                                                                         *)
(* The channel (trait DwordAccessMethod) is external.  It is modelled as a *)
(* register file: read_dword returns the stored dword, write_dword stores  *)
(* the bits the device implements as writable (wmask) and leaves the       *)
(* read-only bits alone.  A mask of all ones is a channel that returns     *)
(* what was last written.                                                  *)
(***************************************************************************)
EXTENDS Integers, Sequences, FiniteSets, TLC

VARIABLES
    regs,     \* the device: dword offset -> stored u32
    wmask,    \* the device: dword offset -> u32 mask of the writable bits
    pre,      \* regs when the last call started
    call,     \* the last call and its arguments
    prev,     \* the call before it
    ret,      \* what the last call returned (kind "panic": it failed fatally)
    log,      \* the dword transactions the last call issued, in order
    ncalls,   \* calls made so far
    header,   \* the header type of the function: "endpoint", "bridge"; "none" for a
              \* region that is not read as a header
    acc,      \* the accessor of the function's header: region and start offset
    iter,     \* the accessor held by the CapabilityIterator, NoIter before there is one
    nexts,    \* calls of next() on the iterator so far
    procs     \* the callers in flight when calls interleave: the position and the
              \* locals of each; NoProcs while calls run one at a time

vars == <<regs, wmask, pre, call, prev, ret, log, ncalls, header, acc, iter, nexts,
          procs>>

\* no caller is in the middle of a call
NoProcs == <<>>

-----------------------------------------------------------------------------
(* Bounds *)

\* dwords of the region the accessor calls range over
NumDwords == 2
\* accessor calls in one behaviour
MaxCalls == 2
\* BAR calls in one behaviour
MaxBarCalls == 1
\* calls of capabilities() and of next() in one behaviour
MaxCapCalls == 3
\* calls on the MSI capability in one behaviour
MaxMsiCalls == 2

-----------------------------------------------------------------------------
(* u32 arithmetic on <<hi, lo>> *)

U32(hi, lo) == <<hi, lo>>
Hi(d) == d[1]
Lo(d) == d[2]

U32Zero == U32(0, 0)
U32Ones == U32(\hFFFF, \hFFFF)

RECURSIVE BitAnd(_, _)
BitAnd(a, b) ==
    IF a = 0 \/ b = 0 THEN 0
    ELSE (a % 2) * (b % 2) + 2 * BitAnd(a \div 2, b \div 2)

U32And(x, y) == U32(BitAnd(Hi(x), Hi(y)), BitAnd(Lo(x), Lo(y)))
U32Not(x) == U32(\hFFFF - Hi(x), \hFFFF - Lo(x))
\* x | y for x, y with no common bit
U32Join(x, y) == U32(Hi(x) + Hi(y), Lo(x) + Lo(y))

\* u32::to_le_bytes: byte 1 is the least significant
to_le_bytes(d) ==
    <<Lo(d) % 256, Lo(d) \div 256, Hi(d) % 256, Hi(d) \div 256>>

\* u32::from_le_bytes
from_be_bytes(b) == U32(256 * b[1] + b[2], 256 * b[3] + b[4])
from_le_bytes(b) == U32(b[3] + 256 * b[4], b[1] + 256 * b[2])

-----------------------------------------------------------------------------
(* The channel: DwordAccessMethod *)

read_dword(mem, offset) == mem[offset]

\* the device keeps its read-only bits and takes the writable ones
write_dword(mem, mask, offset, value) ==
    [mem EXCEPT ![offset] =
        U32Join(U32And(mem[offset], U32Not(mask[offset])),
                U32And(value, mask[offset]))]

Rd(offset, value) == <<"read_dword", offset, value>>
Wr(offset, value) == <<"write_dword", offset, value>>

-----------------------------------------------------------------------------
(* AccessorTrait::read and AccessorTrait::write *)

\* a failed assertion: nothing was returned, nothing was transacted
Panic(mem) == [ok |-> FALSE, val |-> <<>>, mem |-> mem, log |-> <<>>]

\* every chunk read from the first dword
RECURSIVE ReadChunksSameDword(_, _, _, _)
ReadChunksSameDword(mem, off, i, n) ==
    IF i >= n THEN [val |-> <<>>, log |-> <<>>]
    ELSE LET d == read_dword(mem, off)
             rest == ReadChunksSameDword(mem, off, i + 1, n)
         IN [val |-> to_le_bytes(d) \o rest.val,
             log |-> <<Rd(off, d)>> \o rest.log]

\* the little-endian byte images of the dwords at off, off+4, ..., in this order
RECURSIVE ReadChunks(_, _, _, _)
ReadChunks(mem, off, i, n) ==
    IF i >= n THEN [val |-> <<>>, log |-> <<>>]
    ELSE LET d == read_dword(mem, off + 4 * i)
             rest == ReadChunks(mem, off, i + 1, n)
         IN [val |-> to_le_bytes(d) \o rest.val,
             log |-> <<Rd(off + 4 * i, d)>> \o rest.log]

\* the span assertion left out: a field crossing a dword wraps inside the first one
AccReadNoSpanCheck(mem, start_offset, size) ==
    IF size < 4 THEN
        LET start_pos == start_offset % 4
            d == read_dword(mem, start_offset - start_pos)
            raw == to_le_bytes(d)
        IN [ok |-> TRUE,
            val |-> [k \in 1..size |-> raw[((start_pos + k - 1) % 4) + 1]],
            mem |-> mem,
            log |-> <<Rd(start_offset - start_pos, d)>>]
    ELSE IF start_offset % 4 # 0 THEN Panic(mem)
    ELSE IF size % 4 # 0 THEN Panic(mem)
    ELSE LET r == ReadChunks(mem, start_offset, 0, size \div 4)
         IN [ok |-> TRUE, val |-> r.val, mem |-> mem, log |-> r.log]

\* the sub-dword slice taken from byte 0 of the dword instead of start_pos
AccReadFromByte0(mem, start_offset, size) ==
    IF size < 4 THEN
        LET end_offset == start_offset + size - 1
        IN IF start_offset \div 4 # end_offset \div 4 THEN Panic(mem)
           ELSE LET start_pos == start_offset % 4
                    d == read_dword(mem, start_offset - start_pos)
                    raw == to_le_bytes(d)
                IN [ok |-> TRUE,
                    val |-> SubSeq(raw, 1, size),
                    mem |-> mem,
                    log |-> <<Rd(start_offset - start_pos, d)>>]
    ELSE IF start_offset % 4 # 0 THEN Panic(mem)
    ELSE IF size % 4 # 0 THEN Panic(mem)
    ELSE LET r == ReadChunks(mem, start_offset, 0, size \div 4)
         IN [ok |-> TRUE, val |-> r.val, mem |-> mem, log |-> r.log]

AccRead(mem, start_offset, size) ==
    IF size < 4 THEN
        LET end_offset == start_offset + size - 1
        IN IF start_offset \div 4 # end_offset \div 4 THEN Panic(mem)
           ELSE LET start_pos == start_offset % 4
                    end_pos == end_offset % 4
                    d == read_dword(mem, start_offset - start_pos)
                    raw == to_le_bytes(d)
                IN [ok |-> TRUE,
                    val |-> SubSeq(raw, start_pos + 1, end_pos + 1),
                    mem |-> mem,
                    log |-> <<Rd(start_offset - start_pos, d)>>]
    ELSE IF start_offset % 4 # 0 THEN Panic(mem)
    ELSE IF size % 4 # 0 THEN Panic(mem)
    ELSE LET r == ReadChunks(mem, start_offset, 0, size \div 4)
         IN [ok |-> TRUE, val |-> r.val, mem |-> mem, log |-> r.log]

\* write_dword of the chunks of value at off, off+4, ..., in this order
RECURSIVE WriteChunks(_, _, _, _, _, _)
WriteChunks(mem, mask, off, value, i, n) ==
    IF i >= n THEN [mem |-> mem, log |-> <<>>]
    ELSE LET d == from_le_bytes(SubSeq(value, 4 * i + 1, 4 * i + 4))
             rest == WriteChunks(write_dword(mem, mask, off + 4 * i, d),
                                 mask, off, value, i + 1, n)
         IN [mem |-> rest.mem, log |-> <<Wr(off + 4 * i, d)>> \o rest.log]

\* the sub-dword splice with the bytes outside the field zeroed instead of kept
AccWriteNoMerge(mem, mask, start_offset, value) ==
    LET size == Len(value)
        start_pos == start_offset % 4
        base == start_offset - start_pos
    IN IF size < 4 /\ start_pos + size <= 4 THEN
           LET d == read_dword(mem, base)
               new == from_le_bytes(
                        [k \in 1..4 |->
                            IF k >= start_pos + 1 /\ k <= start_pos + size
                            THEN value[k - start_pos] ELSE 0])
           IN [ok |-> TRUE, val |-> <<>>,
               mem |-> write_dword(mem, mask, base, new),
               log |-> <<Rd(base, d), Wr(base, new)>>]
       ELSE IF size >= 4 /\ start_pos = 0 /\ size % 4 = 0 THEN
           LET w == WriteChunks(mem, mask, start_offset, value, 0, size \div 4)
           IN [ok |-> TRUE, val |-> <<>>, mem |-> w.mem, log |-> w.log]
       ELSE Panic(mem)

\* the aligned path without its assertions: the offset rounded down to a dword,
\* the size truncated to whole dwords
AccWriteRoundsDown(mem, mask, start_offset, value) ==
    LET size == Len(value)
        start_pos == start_offset % 4
        base == start_offset - start_pos
    IN IF size < 4 THEN
           IF start_pos + size > 4 THEN Panic(mem)
           ELSE LET d == read_dword(mem, base)
                    raw == to_le_bytes(d)
                    new == from_le_bytes(
                             [k \in 1..4 |->
                                 IF k >= start_pos + 1 /\ k <= start_pos + size
                                 THEN value[k - start_pos] ELSE raw[k]])
                IN [ok |-> TRUE, val |-> <<>>,
                    mem |-> write_dword(mem, mask, base, new),
                    log |-> <<Rd(base, d), Wr(base, new)>>]
       ELSE LET w == WriteChunks(mem, mask, base, value, 0, size \div 4)
            IN [ok |-> TRUE, val |-> <<>>, mem |-> w.mem, log |-> w.log]

AccWrite(mem, mask, start_offset, value) ==
    LET size == Len(value)
    IN IF size < 4 THEN
           LET end_offset == start_offset + size - 1
           IN IF start_offset \div 4 # end_offset \div 4 THEN Panic(mem)
              ELSE LET start_pos == start_offset % 4
                       end_pos == end_offset % 4
                       d == read_dword(mem, start_offset - start_pos)
                       raw == to_le_bytes(d)
                       spliced == [k \in 1..4 |->
                                     IF k >= start_pos + 1 /\ k <= end_pos + 1
                                     THEN value[k - start_pos] ELSE raw[k]]
                       new == from_le_bytes(spliced)
                   IN [ok |-> TRUE, val |-> <<>>,
                       mem |-> write_dword(mem, mask, start_offset - start_pos, new),
                       log |-> <<Rd(start_offset - start_pos, d),
                                 Wr(start_offset - start_pos, new)>>]
       ELSE IF start_offset % 4 # 0 THEN Panic(mem)
       ELSE IF size % 4 # 0 THEN Panic(mem)
       ELSE LET w == WriteChunks(mem, mask, start_offset, value, 0, size \div 4)
            IN [ok |-> TRUE, val |-> <<>>, mem |-> w.mem, log |-> w.log]

-----------------------------------------------------------------------------
(* Accessor calls over a small region *)

RegionBytes == 4 * NumDwords
DwordOffsets == {4 * i : i \in 0..(NumDwords - 1)}

\* size_of::<T>() of the field types tried: u8, u16, [u8; 3], u32, [u8; 6], u64
FieldSizes == {1, 2, 3, 4, 6, 8}

\* the value written: byte j of a T of the given size (0xFC, 0xEC, 0xDC for size 3)
ValueOf(size) == [j \in 1..size |-> 271 - 16 * j - size]

\* the region before the first call: byte p of the region holds 0x11 + p
InitialDword(offset) ==
    from_le_bytes([k \in 1..4 |-> 17 + offset + k - 1])

\* a device with read-only bits in its first dword, and plain storage
MaskKinds == {"storage", "readonly_bits"}
MaskOf(kind, offset) ==
    IF kind = "readonly_bits" /\ offset = 0 THEN U32(\hFF00, \h0FF0) ELSE U32Ones

NoCall == [op |-> "none", offset |-> 0, size |-> 0, value |-> <<>>]
NoRet == [kind |-> "none", val |-> <<>>]

Halted == ret.kind = "panic"

\* PciAddress::new(group, bus, device, function)
PciAddress(group, bus, device, function) == <<group, bus, device, function>>
\* DwordAccessor::new(region, start_offset, method): the method is the channel
Accessor(region, start_offset) == [region |-> region, start_offset |-> start_offset]
\* cast: the same region and offset, read as another type
CastToBase(a) == Accessor(a.region, 0)
cast(a) == Accessor(a.region, a.start_offset)
with_offset(a, new_offset) == Accessor(a.region, new_offset)

\* the accessor of the header of function 00-00:00.0
RootAcc == Accessor(PciAddress(0, 0, 0, 0), 0)
NoIter == [region |-> <<>>, start_offset |-> 0]

Init ==
    /\ regs = [o \in DwordOffsets |-> InitialDword(o)]
    /\ \E kind \in MaskKinds : wmask = [o \in DwordOffsets |-> MaskOf(kind, o)]
    /\ pre = regs
    /\ call = NoCall
    /\ prev = NoCall
    /\ ret = NoRet
    /\ log = <<>>
    /\ ncalls = 0
    /\ header = "none"
    /\ acc = RootAcc
    /\ iter = NoIter
    /\ nexts = 0
    /\ procs = NoProcs

Read ==
    /\ ncalls < MaxCalls
    /\ ~Halted
    /\ \E offset \in 0..(RegionBytes - 1), size \in FieldSizes :
        /\ offset + size <= RegionBytes
        /\ LET r == AccRead(regs, offset, size)
           IN /\ ret' = [kind |-> IF r.ok THEN "value" ELSE "panic", val |-> r.val]
              /\ log' = r.log
              /\ regs' = r.mem
        /\ call' = [op |-> "read", offset |-> offset, size |-> size, value |-> <<>>]
    /\ prev' = call
    /\ pre' = regs
    /\ ncalls' = ncalls + 1
    /\ UNCHANGED <<wmask, header, acc, iter, nexts, procs>>

Write ==
    /\ ncalls < MaxCalls
    /\ ~Halted
    /\ \E offset \in 0..(RegionBytes - 1), size \in FieldSizes :
        /\ offset + size <= RegionBytes
        /\ LET r == AccWrite(regs, wmask, offset, ValueOf(size))
           IN /\ ret' = [kind |-> IF r.ok THEN "unit" ELSE "panic", val |-> <<>>]
              /\ log' = r.log
              /\ regs' = r.mem
        /\ call' = [op |-> "write", offset |-> offset, size |-> size,
                    value |-> ValueOf(size)]
    /\ prev' = call
    /\ pre' = regs
    /\ ncalls' = ncalls + 1
    /\ UNCHANGED <<wmask, header, acc, iter, nexts, procs>>

Next == Read \/ Write

Spec == Init /\ [][Next]_vars

-----------------------------------------------------------------------------
(* bit_field::BitField on u32, and the shifts of the BAR decode *)

RECURSIVE Tz(_)
\* trailing zero bits of n > 0
Tz(n) == IF n % 2 = 1 THEN 0 ELSE 1 + Tz(n \div 2)

\* u32::trailing_zeros
trailing_zeros(d) ==
    IF Lo(d) # 0 THEN Tz(Lo(d))
    ELSE IF Hi(d) # 0 THEN 16 + Tz(Hi(d))
    ELSE 32

\* get_bit(i)
get_bit(d, i) ==
    IF i < 16 THEN (Lo(d) \div (2 ^ i)) % 2 = 1
    ELSE (Hi(d) \div (2 ^ (i - 16))) % 2 = 1

\* get_bits(a..b) as a number, for 1 <= a < b <= 32 with a <= 16
get_bits(d, a, b) ==
    IF b <= 16 THEN (Lo(d) \div (2 ^ a)) % (2 ^ (b - a))
    ELSE (Lo(d) \div (2 ^ a)) + (Hi(d) % (2 ^ (b - 16))) * (2 ^ (16 - a))

\* set_bits(0..n, v) for n <= 16
set_low_bits(d, n, v) == U32(Hi(d), Lo(d) - (Lo(d) % (2 ^ n)) + v)

\* (x as u32) << k for k <= 16, the bits shifted out of the u32 lost
ShlU32(x, k) ==
    U32((x \div (2 ^ (16 - k))) % 65536, (x % (2 ^ (16 - k))) * (2 ^ k))

\* 1u32 << k for k < 32
Shl1U32(k) == IF k < 16 THEN U32(0, 2 ^ k) ELSE U32(2 ^ (k - 16), 0)

\* a u64 is the pair <<high u32, low u32>>
U64(high, low) == <<high, low>>

\* (1 << k) as u64 for k < 32: the literal is an i32, and 1i32 << 31 is negative,
\* so that the cast sign-extends it
Shl1I32AsU64(k) ==
    IF k < 31 THEN U64(U32Zero, Shl1U32(k))
    ELSE U64(U32Ones, U32(\h8000, 0))

\* 1u64 << k for 32 <= k < 64
Shl1U64(k) == U64(Shl1U32(k - 32), U32Zero)

-----------------------------------------------------------------------------
(* Bar, and the decode of one BAR slot *)

BarNone == [kind |-> "None"]
BarPanic == [kind |-> "panic"]
Memory32(address, size, prefetchable) ==
    [kind |-> "Memory32", address |-> address, size |-> size,
     prefetchable |-> prefetchable]
Memory64(address, size, prefetchable) ==
    [kind |-> "Memory64", address |-> address, size |-> size,
     prefetchable |-> prefetchable]
Io(port) == [kind |-> "Io", port |-> port]

\* offset of bar_raw[slot] in EndpointHeader and in PciPciBridgeHeader: the 16-byte
\* PciHeader comes first (repr(C)); the header accessor starts at offset 0
BarOffset(slot) == 16 + 4 * slot

\* a u32 field read and written through the accessor
U32Read(mem, offset) ==
    LET r == AccRead(mem, offset, 4)
    IN [val |-> from_le_bytes(r.val), log |-> r.log]
U32Write(mem, mask, offset, value) == AccWrite(mem, mask, offset, to_le_bytes(value))

\* bar.get_bits(4..32) << 4
BarAddress(bar) == ShlU32(get_bits(bar, 4, 32), 4)

\* bar.get_bits(2..32) << 2
IoPortBits4To31(bar) == ShlU32(get_bits(bar, 4, 32), 4)
IoPort(bar) == ShlU32(get_bits(bar, 2, 32), 2)

\* readback.set_bits(0..4, 0); 1 << readback.trailing_zeros(), as a u32.
\* A shift by 32 overflows: a panic with overflow checks, and without them the
\* shift amount wraps to 0.
Memory32SizeUnmasked(readback, overflow_checks) ==
    LET tz == trailing_zeros(readback)
    IN IF tz < 32 THEN [ok |-> TRUE, size |-> Shl1U32(tz)]
       ELSE IF overflow_checks THEN [ok |-> FALSE, size |-> U32Zero]
       ELSE [ok |-> TRUE, size |-> Shl1U32(tz % 32)]
Memory32Size(readback, overflow_checks) ==
    LET tz == trailing_zeros(set_low_bits(readback, 4, 0))
    IN IF tz < 32 THEN [ok |-> TRUE, size |-> Shl1U32(tz)]
       ELSE IF overflow_checks THEN [ok |-> FALSE, size |-> U32Zero]
       ELSE [ok |-> TRUE, size |-> Shl1U32(tz % 32)]

\* the size of a 64-bit BAR from the two readbacks
Memory64Size(readback_low, readback_high, overflow_checks) ==
    LET low == set_low_bits(readback_low, 4, 0)
    IN IF low # U32Zero
       THEN [ok |-> TRUE, size |-> Shl1I32AsU64(trailing_zeros(low))]
       ELSE LET shift == trailing_zeros(readback_high) + 32
            IN IF shift < 64 THEN [ok |-> TRUE, size |-> Shl1U64(shift)]
               ELSE IF overflow_checks THEN [ok |-> FALSE, size |-> U64(U32Zero, U32Zero)]
               ELSE [ok |-> TRUE, size |-> U64(U32Zero, Shl1U32(0))]

ProbeLow == U32(\hFFFF, \hFFF0)
ProbeHigh == U32(\hFFFF, \hFFFF)

\* bar.get_bits(1..3), the width of a memory BAR: bit 1 ignored
MemoryWidthBit2Only(raw) == 2 * get_bits(raw, 2, 3)
MemoryWidth(raw) == get_bits(raw, 1, 3)

\* slot as usize >= Self::MAX_BARS - 1: no slot follows to hold the upper half
IsLastSlotOffByOne(MAX_BARS, slot) == slot >= MAX_BARS
IsLastSlot(MAX_BARS, slot) == slot >= MAX_BARS - 1

\* bar returning None on a zero readback before the restore write
BarReturnsBeforeRestore(mem, mask, MAX_BARS, slot, overflow_checks) ==
    IF slot >= MAX_BARS THEN [res |-> BarNone, mem |-> mem, log |-> <<>>]
    ELSE
    LET off == BarOffset(slot)
        r0 == U32Read(mem, off)
        raw == r0.val
    IN
    IF get_bit(raw, 0) THEN [res |-> Io(IoPort(raw)), mem |-> mem, log |-> r0.log]
    ELSE
    LET prefetchable == get_bit(raw, 3)
        address == BarAddress(raw)
        width == MemoryWidth(raw)
    IN
    IF width = 0 THEN
        LET w1 == U32Write(mem, mask, off, ProbeLow)
            r1 == U32Read(w1.mem, off)
            w2 == U32Write(w1.mem, mask, off, address)
            lg == r0.log \o w1.log \o r1.log \o w2.log
            sz == Memory32Size(r1.val, overflow_checks)
        IN IF r1.val = U32Zero
           THEN [res |-> BarNone, mem |-> w1.mem, log |-> r0.log \o w1.log \o r1.log]
           ELSE IF ~sz.ok THEN [res |-> BarPanic, mem |-> w2.mem, log |-> lg]
           ELSE [res |-> Memory32(address, sz.size, prefetchable),
                 mem |-> w2.mem, log |-> lg]
    ELSE IF width = 2 THEN
        IF IsLastSlot(MAX_BARS, slot) THEN [res |-> BarNone, mem |-> mem, log |-> r0.log]
        ELSE
        LET next == BarOffset(slot + 1)
            rU == U32Read(mem, next)
            address_upper == rU.val
            w1 == U32Write(mem, mask, off, ProbeLow)
            w2 == U32Write(w1.mem, mask, next, ProbeHigh)
            r1 == U32Read(w2.mem, off)
            r2 == U32Read(w2.mem, next)
            w3 == U32Write(w2.mem, mask, off, address)
            w4 == U32Write(w3.mem, mask, next, address_upper)
            lg == r0.log \o rU.log \o w1.log \o w2.log \o r1.log \o r2.log
                    \o w3.log \o w4.log
            sz == Memory64Size(r1.val, r2.val, overflow_checks)
        IN IF ~sz.ok THEN [res |-> BarPanic, mem |-> w4.mem, log |-> lg]
           ELSE [res |-> Memory64(U64(address_upper, address), sz.size, prefetchable),
                 mem |-> w4.mem, log |-> lg]
    ELSE [res |-> BarPanic, mem |-> mem, log |-> r0.log]

\* EndpointHeader::bar and PciPciBridgeHeader::bar: the same code but for MAX_BARS
bar(mem, mask, MAX_BARS, slot, overflow_checks) ==
    IF slot >= MAX_BARS THEN [res |-> BarNone, mem |-> mem, log |-> <<>>]
    ELSE
    LET off == BarOffset(slot)
        r0 == U32Read(mem, off)
        raw == r0.val
    IN
    IF get_bit(raw, 0) THEN [res |-> Io(IoPort(raw)), mem |-> mem, log |-> r0.log]
    ELSE
    LET prefetchable == get_bit(raw, 3)
        address == BarAddress(raw)
        width == MemoryWidth(raw)
    IN
    IF width = 0 THEN
        LET w1 == U32Write(mem, mask, off, ProbeLow)
            r1 == U32Read(w1.mem, off)
            w2 == U32Write(w1.mem, mask, off, address)
            lg == r0.log \o w1.log \o r1.log \o w2.log
            sz == Memory32Size(r1.val, overflow_checks)
        IN IF r1.val = U32Zero THEN [res |-> BarNone, mem |-> w2.mem, log |-> lg]
           ELSE IF ~sz.ok THEN [res |-> BarPanic, mem |-> w2.mem, log |-> lg]
           ELSE [res |-> Memory32(address, sz.size, prefetchable),
                 mem |-> w2.mem, log |-> lg]
    ELSE IF width = 2 THEN
        IF IsLastSlot(MAX_BARS, slot) THEN [res |-> BarNone, mem |-> mem, log |-> r0.log]
        ELSE
        LET next == BarOffset(slot + 1)
            rU == U32Read(mem, next)
            address_upper == rU.val
            w1 == U32Write(mem, mask, off, ProbeLow)
            w2 == U32Write(w1.mem, mask, next, ProbeHigh)
            r1 == U32Read(w2.mem, off)
            r2 == U32Read(w2.mem, next)
            w3 == U32Write(w2.mem, mask, off, address)
            w4 == U32Write(w3.mem, mask, next, address_upper)
            lg == r0.log \o rU.log \o w1.log \o w2.log \o r1.log \o r2.log
                    \o w3.log \o w4.log
            sz == Memory64Size(r1.val, r2.val, overflow_checks)
        IN IF ~sz.ok THEN [res |-> BarPanic, mem |-> w4.mem, log |-> lg]
           ELSE [res |-> Memory64(U64(address_upper, address), sz.size, prefetchable),
                 mem |-> w4.mem, log |-> lg]
    ELSE [res |-> BarPanic, mem |-> mem, log |-> r0.log]

\* bar_base_only taking the prefetchable flag from bit 2 of the raw dword
BarBaseOnlyPrefetchableBit2(mem, MAX_BARS, slot) ==
    IF slot >= MAX_BARS THEN [res |-> BarNone, mem |-> mem, log |-> <<>>]
    ELSE
    LET off == BarOffset(slot)
        r0 == U32Read(mem, off)
        raw == r0.val
    IN
    IF get_bit(raw, 0) THEN [res |-> Io(IoPort(raw)), mem |-> mem, log |-> r0.log]
    ELSE
    LET prefetchable == get_bit(raw, 2)
        address == BarAddress(raw)
        width == MemoryWidth(raw)
    IN
    IF width = 0 THEN
        [res |-> Memory32(address, U32Zero, prefetchable), mem |-> mem, log |-> r0.log]
    ELSE IF width = 2 THEN
        IF IsLastSlot(MAX_BARS, slot) THEN [res |-> BarNone, mem |-> mem, log |-> r0.log]
        ELSE
        LET rU == U32Read(mem, BarOffset(slot + 1))
        IN [res |-> Memory64(U64(rU.val, address), U64(U32Zero, U32Zero), prefetchable),
            mem |-> mem, log |-> r0.log \o rU.log]
    ELSE [res |-> BarPanic, mem |-> mem, log |-> r0.log]

\* EndpointHeader::bar_base_only and PciPciBridgeHeader::bar_base_only
bar_base_only(mem, MAX_BARS, slot) ==
    IF slot >= MAX_BARS THEN [res |-> BarNone, mem |-> mem, log |-> <<>>]
    ELSE
    LET off == BarOffset(slot)
        r0 == U32Read(mem, off)
        raw == r0.val
    IN
    IF get_bit(raw, 0) THEN [res |-> Io(IoPort(raw)), mem |-> mem, log |-> r0.log]
    ELSE
    LET prefetchable == get_bit(raw, 3)
        address == BarAddress(raw)
        width == MemoryWidth(raw)
    IN
    IF width = 0 THEN
        [res |-> Memory32(address, U32Zero, prefetchable), mem |-> mem, log |-> r0.log]
    ELSE IF width = 2 THEN
        IF IsLastSlot(MAX_BARS, slot) THEN [res |-> BarNone, mem |-> mem, log |-> r0.log]
        ELSE
        LET rU == U32Read(mem, BarOffset(slot + 1))
        IN [res |-> Memory64(U64(rU.val, address), U64(U32Zero, U32Zero), prefetchable),
            mem |-> mem, log |-> r0.log \o rU.log]
    ELSE [res |-> BarPanic, mem |-> mem, log |-> r0.log]

\* Result<(), BarWriteError>
WriteOk == [kind |-> "Ok"]
ErrNoSuchBar == [kind |-> "Err", error |-> "NoSuchBar"]
ErrInvalidValue == [kind |-> "Err", error |-> "InvalidValue"]

\* value.get_bits(0..=31) as u32 and value.get_bits(32..=63) as u32 of a 64-bit usize
ValueBits0To31(value) == value[2]
ValueBits32To63Swapped(value) == value[2]
ValueBits32To63(value) == value[1]

\* value > u32::MAX as usize
ExceedsU32Never(value) == FALSE
ExceedsU32(value) == value[1] # U32Zero

\* EndpointHeader::write_bar and PciPciBridgeHeader::write_bar, usize of 64 bits:
\* the slot is decoded by bar (probe and restore included), then written
\* the match of write_bar on b, what Self::bar(acc, slot) returned
WriteDecoded(b, mask, slot, value) ==
    IF b.res.kind = "panic" THEN [res |-> BarPanic, mem |-> b.mem, log |-> b.log]
    ELSE IF b.res.kind = "Memory64" THEN
        LET w1 == U32Write(b.mem, mask, BarOffset(slot), ValueBits0To31(value))
            w2 == U32Write(w1.mem, mask, BarOffset(slot + 1), ValueBits32To63(value))
        IN [res |-> WriteOk, mem |-> w2.mem, log |-> b.log \o w1.log \o w2.log]
    ELSE IF b.res.kind \in {"Memory32", "Io"} THEN
        IF ExceedsU32(value) THEN [res |-> ErrInvalidValue, mem |-> b.mem, log |-> b.log]
        ELSE
        LET w1 == U32Write(b.mem, mask, BarOffset(slot), ValueBits0To31(value))
        IN [res |-> WriteOk, mem |-> w1.mem, log |-> b.log \o w1.log]
    ELSE [res |-> ErrNoSuchBar, mem |-> b.mem, log |-> b.log]

write_bar(mem, mask, MAX_BARS, slot, value, overflow_checks) ==
    \* bar is evaluated once, then matched on
    CHOOSE r \in {WriteDecoded(b, mask, slot, value) :
                    b \in {bar(mem, mask, MAX_BARS, slot, overflow_checks)}} : TRUE

-----------------------------------------------------------------------------
(* BAR calls on an endpoint and on a bridge header *)

EndpointMaxBars == 6
BridgeMaxBars == 2
MaxBarsOf(h) == IF h = "endpoint" THEN EndpointMaxBars ELSE BridgeMaxBars

\* the dwords 0x10..0x28: the six BARs of an endpoint and the dword after them
\* (CardBus CIS pointer); the two BARs of a bridge and the five dwords after them
BarRegionOffsets == {BarOffset(i) : i \in 0..EndpointMaxBars}

\* What a device can implement in a BAR slot, as <<stored value, writable mask>> of
\* the slot and, for a 64-bit BAR, of the slot after it.
BarKinds ==
    {"absent", "mem32", "mem32_prefetchable", "mem32_storage", "flags_only",
     "io", "io_ones", "mem64", "mem64_2g", "mem64_above_4g", "mem64_no_size",
     "reserved", "reserved_11"}

KindRegs(kind) ==
    CASE kind = "absent" ->
            \* hardwired to zero
            << <<U32Zero, U32Zero>> >>
      [] kind = "mem32" ->
            \* 32 bytes at 0xFEB00000
            << <<U32(\hFEB0, 0), U32(\hFFFF, \hFFE0)>> >>
      [] kind = "mem32_prefetchable" ->
            \* 4 KiB at 0xE0001000, prefetchable
            << <<U32(\hE000, \h1008), U32(\hFFFF, \hF000)>> >>
      [] kind = "mem32_storage" ->
            \* a channel that returns what was last written
            << <<U32(\h1234, \h5678), U32Ones>> >>
      [] kind = "flags_only" ->
            \* no address bit implemented, the prefetchable flag hardwired
            << <<U32(0, 8), U32Zero>> >>
      [] kind = "io" ->
            \* 16 ports at 0xE00C (bits 2 and 3 are address bits of an I/O BAR)
            << <<U32(0, \hE00D), U32(0, \hFFF0)>> >>
      [] kind = "io_ones" ->
            << <<U32(\hFFFF, \hFFF1), U32(\hFFFF, \hFFF0)>> >>
      [] kind = "mem64" ->
            \* 1 MiB at 0x1_C000_0000, prefetchable
            << <<U32(\hC000, \h000C), U32(\hFFF0, 0)>>, <<U32(0, 1), U32Ones>> >>
      [] kind = "mem64_2g" ->
            \* 2 GiB at 0x3_8000_0000
            << <<U32(\h8000, 4), U32(\h8000, 0)>>, <<U32(0, 3), U32Ones>> >>
      [] kind = "mem64_above_4g" ->
            \* 64 GiB at 0x20_0000_0000
            << <<U32(0, 4), U32Zero>>, <<U32(0, \h0020), U32(\hFFFF, \hFFF0)>> >>
      [] kind = "mem64_no_size" ->
            \* the width bits hardwired, no address bit implemented
            << <<U32(0, 4), U32Zero>>, <<U32Zero, U32Zero>> >>
      [] kind = "reserved" ->
            \* width bits 01
            << <<U32(\hD000, 2), U32(\hFFFF, 0)>> >>
      [] kind = "reserved_11" ->
            \* width bits 11, prefetchable
            << <<U32(\hD000, \h000E), U32(\hFFFF, 0)>> >>

\* the other slots: 64 KiB memory BARs at distinct addresses
FillerReg(slot) == <<U32(4096 * (slot + 1), 0), U32(\hFFFF, 0)>>

\* the device with the given kind of BAR at slot at, as slot -> <<value, mask>>
Layout(kind, at) ==
    [slot \in 0..EndpointMaxBars |->
        IF slot >= at /\ slot < at + Len(KindRegs(kind))
        THEN KindRegs(kind)[slot - at + 1]
        ELSE FillerReg(slot)]

NoBarCall == [op |-> "none", slot |-> 0]

InitBar ==
    /\ header \in {"endpoint", "bridge"}
    /\ \E kind \in BarKinds, at \in 0..(MaxBarsOf(header) - 1) :
        /\ regs = [o \in BarRegionOffsets |-> Layout(kind, at)[(o - 16) \div 4][1]]
        /\ wmask = [o \in BarRegionOffsets |-> Layout(kind, at)[(o - 16) \div 4][2]]
    /\ pre = regs
    /\ call = NoBarCall
    /\ prev = NoBarCall
    /\ ret = [kind |-> "none"]
    /\ log = <<>>
    /\ ncalls = 0
    /\ acc = RootAcc
    /\ iter = NoIter
    /\ nexts = 0
    /\ procs = NoProcs

\* slots tried: every slot of the header and one past the last
SlotsOf(h) == 0..MaxBarsOf(h)

Bar ==
    /\ ncalls < MaxBarCalls
    /\ ~Halted
    /\ \E slot \in SlotsOf(header), overflow_checks \in BOOLEAN :
        /\ LET r == bar(regs, wmask, MaxBarsOf(header), slot, overflow_checks)
           IN /\ ret' = r.res
              /\ regs' = r.mem
              /\ log' = r.log
        /\ call' = [op |-> "bar", slot |-> slot]
    /\ prev' = call
    /\ pre' = regs
    /\ ncalls' = ncalls + 1
    /\ UNCHANGED <<wmask, header, acc, iter, nexts, procs>>

BarBaseOnly ==
    /\ ncalls < MaxBarCalls
    /\ ~Halted
    /\ \E slot \in SlotsOf(header) :
        /\ LET r == bar_base_only(regs, MaxBarsOf(header), slot)
           IN /\ ret' = r.res
              /\ regs' = r.mem
              /\ log' = r.log
        /\ call' = [op |-> "bar_base_only", slot |-> slot]
    /\ prev' = call
    /\ pre' = regs
    /\ ncalls' = ncalls + 1
    /\ UNCHANGED <<wmask, header, acc, iter, nexts, procs>>

\* the values written: one that fits 32 bits, one that does not
BarValues == {U64(U32Zero, U32(\hF000, \h1230)), U64(U32(0, 2), U32(\hA000, \h4560))}

WriteBar ==
    /\ ncalls < MaxBarCalls
    /\ ~Halted
    /\ \E slot \in SlotsOf(header), value \in BarValues, overflow_checks \in BOOLEAN :
        /\ \E r \in {write_bar(regs, wmask, MaxBarsOf(header), slot, value,
                                overflow_checks)} :
              /\ ret' = r.res
              /\ regs' = r.mem
              /\ log' = r.log
        /\ call' = [op |-> "write_bar", slot |-> slot, value |-> value]
    /\ prev' = call
    /\ pre' = regs
    /\ ncalls' = ncalls + 1
    /\ UNCHANGED <<wmask, header, acc, iter, nexts, procs>>

NextBar == Bar \/ BarBaseOnly \/ WriteBar

SpecBar == InitBar /\ [][NextBar]_vars

-----------------------------------------------------------------------------
(* Header type and dispatch to the endpoint and bridge headers *)

\* Result<HeaderType, u8>
OkType(ty) == [kind |-> "Ok", ty |-> ty]
ErrType(t) == [kind |-> "Err", t |-> t]

\* HeaderTypeDword::header_type on the byte header_type_raw, matching on all 8 bits
header_type_of_whole_byte(header_type_raw) ==
    IF header_type_raw = 0 THEN OkType("Endpoint")
    ELSE IF header_type_raw = 1 THEN OkType("PciPciBridge")
    ELSE IF header_type_raw = 2 THEN OkType("CardBusBridge")
    ELSE ErrType(header_type_raw)

\* HeaderTypeDword::header_type on the byte header_type_raw
header_type(header_type_raw) ==
    LET t == header_type_raw % 128
    IN IF t = 0 THEN OkType("Endpoint")
       ELSE IF t = 1 THEN OkType("PciPciBridge")
       ELSE IF t = 2 THEN OkType("CardBusBridge")
       ELSE ErrType(t)

\* HeaderTypeDword::has_multiple_functions: header_type_raw.get_bit(7)
has_multiple_functions(header_type_raw) == (header_type_raw \div 128) % 2 = 1

\* offset of PciHeader::config, and the index of header_type_raw in its bytes
ConfigOffset == 12
HeaderTypeRawIndex == 3

\* map_field!(header_acc.config).read(): the four bytes of the HeaderTypeDword
ReadConfig(mem, header_acc) == AccRead(mem, header_acc.start_offset + ConfigOffset, 4)

OptNone == [kind |-> "None"]
OptSome(a) == [kind |-> "Some", acc |-> a]

\* EndpointHeader::from_header (ty = "Endpoint") and PciPciBridgeHeader::from_header
\* (ty = "PciPciBridge")
from_header(mem, header_acc, ty) ==
    LET r == ReadConfig(mem, header_acc)
    IN IF ~r.ok THEN [res |-> BarPanic, log |-> r.log]
       ELSE IF header_type(r.val[HeaderTypeRawIndex]) = OkType(ty)
       THEN [res |-> OptSome(cast(header_acc)), log |-> r.log]
       ELSE [res |-> OptNone, log |-> r.log]

\* the functions whose header is read, and where their header accessor starts
Regions == {PciAddress(0, 0, 0, 0), PciAddress(0, 2, 31, 7)}
HeaderStarts == {0, 64}
HeaderTypeBytes == 0..255

\* the dword at 0x0C: cacheline size 0x10, latency timer 0x20, header type, BIST 0x80
ConfigDword(header_type_raw) == from_le_bytes(<<16, 32, header_type_raw, 128>>)

NoTypeCall == [op |-> "none"]

InitType ==
    /\ \E region \in Regions, start \in HeaderStarts : acc = Accessor(region, start)
    /\ \E b \in HeaderTypeBytes :
        regs = [o \in {acc.start_offset + ConfigOffset} |-> ConfigDword(b)]
    /\ wmask = [o \in DOMAIN regs |-> U32Zero]
    /\ pre = regs
    /\ call = NoTypeCall
    /\ prev = NoTypeCall
    /\ ret = [kind |-> "none"]
    /\ log = <<>>
    /\ ncalls = 0
    /\ header = "none"
    /\ iter = NoIter
    /\ nexts = 0
    /\ procs = NoProcs

\* map_field!(header_acc.config).read(), then header_type() and
\* has_multiple_functions() of the value read
HeaderType ==
    /\ ncalls < MaxCalls
    /\ ~Halted
    /\ LET r == ReadConfig(regs, acc)
       IN /\ ret' = IF ~r.ok THEN BarPanic
                    ELSE [kind |-> "classified",
                          header_type |-> header_type(r.val[HeaderTypeRawIndex]),
                          has_multiple_functions |->
                              has_multiple_functions(r.val[HeaderTypeRawIndex])]
          /\ log' = r.log
    /\ call' = [op |-> "header_type"]
    /\ prev' = call
    /\ pre' = regs
    /\ ncalls' = ncalls + 1
    /\ UNCHANGED <<regs, wmask, header, acc, iter, nexts, procs>>

FromHeader(ty) ==
    /\ ncalls < MaxCalls
    /\ ~Halted
    /\ LET r == from_header(regs, acc, ty)
       IN /\ ret' = r.res
          /\ log' = r.log
    /\ call' = [op |-> "from_header", ty |-> ty]
    /\ prev' = call
    /\ pre' = regs
    /\ ncalls' = ncalls + 1
    /\ UNCHANGED <<regs, wmask, header, acc, iter, nexts, procs>>

EndpointFromHeader == FromHeader("Endpoint")
BridgeFromHeader == FromHeader("PciPciBridge")

NextType == HeaderType \/ EndpointFromHeader \/ BridgeFromHeader

SpecType == InitType /\ [][NextType]_vars

-----------------------------------------------------------------------------
(* The capability list *)

\* Status::has_capability_list on the 16-bit status word: get_bit(4), and ignoring it
HasCapabilityListAlways(sts) == TRUE
has_capability_list(sts) == (sts \div 16) % 2 = 1

\* offsets of PciHeader::cmdsts and of capabilities_pointer in both header types
CmdStsOffset == 4
CapabilitiesPointerOffset == 52

\* EndpointHeader::capabilities and PciPciBridgeHeader::capabilities: the accessor
\* the iterator starts with
capabilities(mem, a) ==
    LET r1 == AccRead(mem, a.start_offset + CmdStsOffset, 4)
        \* CmdSts { cmd, sts }: the status word is the upper half of the dword
        sts == r1.val[3] + 256 * r1.val[4]
        r2 == AccRead(mem, a.start_offset + CapabilitiesPointerOffset, 1)
    IN IF has_capability_list(sts)
       THEN [iter |-> with_offset(cast(a), r2.val[1]), log |-> r1.log \o r2.log]
       ELSE [iter |-> with_offset(cast(a), 0), log |-> r1.log]

\* CapabilityIterator::next with a check that the list only goes forward
NextForwardOnly(mem, it) ==
    IF it.start_offset = 0 THEN [res |-> OptNone, iter |-> it, log |-> <<>>]
    ELSE LET r == AccRead(mem, it.start_offset, 4)
         IN IF ~r.ok THEN [res |-> BarPanic, iter |-> it, log |-> r.log]
            ELSE IF r.val[2] <= it.start_offset
            THEN [res |-> OptNone, iter |-> it, log |-> r.log]
            ELSE [res |-> OptSome(with_offset(it, r.val[2])), iter |-> it, log |-> r.log]

\* CapabilityIterator::next: the header { id, next, extension } is read at the
\* iterator's accessor, the accessor at next is returned, self.acc is not assigned
next(mem, it) ==
    IF it.start_offset = 0 THEN [res |-> OptNone, iter |-> it, log |-> <<>>]
    ELSE LET r == AccRead(mem, it.start_offset, 4)
         IN IF ~r.ok THEN [res |-> BarPanic, iter |-> it, log |-> r.log]
            ELSE [res |-> OptSome(with_offset(it, r.val[2])), iter |-> it, log |-> r.log]

\* where the device has capability headers: 0x40, 0x44, 0x48
CapOffsets == {64, 68, 72}
\* what a capability pointer or a next byte holds: the end of the list, a header,
\* or 0x46, which is not a multiple of 4
PointerBytes == CapOffsets \cup {0, 70}
\* status words with and without the capability-list bit, other bits set
StatusWords == {\h0290, \h0280}

\* the header at o: id 0x05 (MSI), next, and an extension whose bytes 05 46 make the
\* four bytes at 0x46 a header with next = 0x46 as well
CapHeaderDword(nextbyte) == from_le_bytes(<<5, nextbyte, 5, 70>>)

NoCapCall == [op |-> "none"]

InitCap ==
    /\ header \in {"endpoint", "bridge"}
    /\ acc = RootAcc
    /\ \E sts \in StatusWords, ptr \in PointerBytes, nx \in [CapOffsets -> PointerBytes] :
        regs = [o \in {CmdStsOffset, CapabilitiesPointerOffset} \cup CapOffsets |->
                  IF o = CmdStsOffset THEN from_le_bytes(<<7, 0, sts % 256, sts \div 256>>)
                  ELSE IF o = CapabilitiesPointerOffset THEN from_le_bytes(<<ptr, 0, 0, 0>>)
                  ELSE CapHeaderDword(nx[o])]
    /\ wmask = [o \in DOMAIN regs |-> U32Zero]
    /\ pre = regs
    /\ call = NoCapCall
    /\ prev = NoCapCall
    /\ ret = [kind |-> "none"]
    /\ log = <<>>
    /\ ncalls = 0
    /\ iter = NoIter
    /\ nexts = 0
    /\ procs = NoProcs

Capabilities ==
    /\ ncalls < MaxCapCalls
    /\ ~Halted
    /\ LET r == capabilities(regs, acc)
       IN /\ iter' = r.iter
          /\ ret' = [kind |-> "iterator", acc |-> r.iter]
          /\ log' = r.log
    /\ nexts' = 0
    /\ call' = [op |-> "capabilities"]
    /\ prev' = call
    /\ pre' = regs
    /\ ncalls' = ncalls + 1
    /\ UNCHANGED <<regs, wmask, header, acc, procs>>

IterNext ==
    /\ ncalls < MaxCapCalls
    /\ ~Halted
    /\ iter # NoIter
    /\ LET r == next(regs, iter)
       IN /\ iter' = r.iter
          /\ ret' = r.res
          /\ log' = r.log
    /\ nexts' = nexts + 1
    /\ call' = [op |-> "next"]
    /\ prev' = call
    /\ pre' = regs
    /\ ncalls' = ncalls + 1
    /\ UNCHANGED <<regs, wmask, header, acc, procs>>

NextCap == Capabilities \/ IterNext

SpecCap == InitCap /\ [][NextCap]_vars

-----------------------------------------------------------------------------
(* The MSI capability: MessageControl and MsiCapabilityInfo *)

\* the capability id tested by the MSI code, and one it does not accept (power
\* management)
MsiCapId == 5
OtherCapId == 1

\* CapabilityHeader { id, next, extension } from its four bytes, and back
CapabilityHeader(id, nextbyte, extension) ==
    [id |-> id, next |-> nextbyte, extension |-> extension]
HeaderOfBytes(b) == CapabilityHeader(b[1], b[2], b[3] + 256 * b[4])
BytesOfHeader(h) == <<h.id, h.next, h.extension % 256, h.extension \div 256>>

\* MessageControl::is_64bit: get_bit(7), and get_bit(8) in its place
Is64BitFromBit8(ctrl) == (ctrl \div 256) % 2 = 1
is_64bit(ctrl) == (ctrl \div 128) % 2 = 1

\* MsiCapability64Bit { header, addr, data, mask_bits, pending_bits }
MsiCapability(hdr, addr0, addr1, data, mask_bits, pending_bits) ==
    [header |-> hdr, addr |-> <<addr0, addr1>>, data |-> data,
     mask_bits |-> mask_bits, pending_bits |-> pending_bits]

\* MsiCapabilityInfo::msi_cap_type
msi_cap_type(mem, a) ==
    LET r == AccRead(mem, a.start_offset, 4)
        h == HeaderOfBytes(r.val)
    IN IF ~r.ok THEN [res |-> BarPanic, log |-> r.log]
       ELSE IF h.id # MsiCapId THEN [res |-> [kind |-> "usize", val |-> 0], log |-> r.log]
       ELSE IF ~is_64bit(h.extension)
       THEN [res |-> [kind |-> "usize", val |-> 1], log |-> r.log]
       ELSE [res |-> [kind |-> "usize", val |-> 2], log |-> r.log]

\* MsiCapability::<N>::from_header, which accepts any capability id
MsiFromHeaderAnyId(mem, a, N) ==
    LET r == AccRead(mem, a.start_offset, 4)
        h == HeaderOfBytes(r.val)
    IN IF ~r.ok THEN [res |-> BarPanic, log |-> r.log]
       ELSE IF is_64bit(h.extension) = (N # 1)
       THEN [res |-> OptSome(cast(a)), log |-> r.log]
       ELSE [res |-> OptNone, log |-> r.log]

\* MsiCapability::<N>::from_header, N = 1 for MsiCapability32Bit and 2 for
\* MsiCapability64Bit
MsiFromHeader(mem, a, N) ==
    LET r == AccRead(mem, a.start_offset, 4)
        h == HeaderOfBytes(r.val)
    IN IF ~r.ok THEN [res |-> BarPanic, log |-> r.log]
       ELSE IF h.id = MsiCapId
       THEN IF is_64bit(h.extension) = (N # 1)
            THEN [res |-> OptSome(cast(a)), log |-> r.log]
            ELSE [res |-> OptNone, log |-> r.log]
       ELSE [res |-> OptNone, log |-> r.log]

\* offsets of the fields of MsiCapability<N> (repr(C)): header 0, addr[i] 4 + 4i,
\* then data, mask_bits, pending_bits
AddrOffset(i) == 4 + 4 * i
DataOffset(N) == 4 + 4 * N
MaskBitsOffset(N) == 8 + 4 * N
PendingBitsOffset(N) == 12 + 4 * N

InfoRet(info) == [kind |-> "info", info |-> info]
UnitRet == [kind |-> "unit"]

\* MsiCapabilityInfo::read_info on a 64-bit capability that reads it as a 32-bit one
ReadInfoAs32Bit(mem, a) ==
    LET c == a.start_offset
        r0 == AccRead(mem, c, 4)
        h == HeaderOfBytes(r0.val)
    IN IF ~r0.ok THEN [res |-> BarPanic, log |-> r0.log]
       ELSE IF h.id # MsiCapId THEN [res |-> BarPanic, log |-> r0.log]
       ELSE
            LET a0 == U32Read(mem, c + AddrOffset(0))
                d == U32Read(mem, c + DataOffset(1))
            IN [res |-> InfoRet(MsiCapability(h, a0.val, U32Zero, d.val, U32Zero, U32Zero)),
                log |-> r0.log \o a0.log \o d.log]

\* MsiCapabilityInfo::read_info
read_info(mem, a) ==
    LET c == a.start_offset
        r0 == AccRead(mem, c, 4)
        h == HeaderOfBytes(r0.val)
    IN IF ~r0.ok THEN [res |-> BarPanic, log |-> r0.log]
       ELSE IF h.id # MsiCapId THEN [res |-> BarPanic, log |-> r0.log]
       ELSE IF ~is_64bit(h.extension) THEN
            LET a0 == U32Read(mem, c + AddrOffset(0))
                d == U32Read(mem, c + DataOffset(1))
            IN [res |-> InfoRet(MsiCapability(h, a0.val, U32Zero, d.val, U32Zero, U32Zero)),
                log |-> r0.log \o a0.log \o d.log]
       ELSE
            LET a0 == U32Read(mem, c + AddrOffset(0))
                a1 == U32Read(mem, c + AddrOffset(1))
                d == U32Read(mem, c + DataOffset(2))
                m == U32Read(mem, c + MaskBitsOffset(2))
                p == U32Read(mem, c + PendingBitsOffset(2))
            IN [res |-> InfoRet(MsiCapability(h, a0.val, a1.val, d.val, m.val, p.val)),
                log |-> r0.log \o a0.log \o a1.log \o d.log \o m.log \o p.log]

\* the write_dword of each <<offset, bytes>> of fields from the i-th on, in order
RECURSIVE WriteFields(_, _, _, _)
WriteFields(mem, mask, fields, i) ==
    IF i > Len(fields) THEN [mem |-> mem, log |-> <<>>]
    ELSE CHOOSE r \in
            UNION {{[mem |-> rest.mem, log |-> w.log \o rest.log] :
                        rest \in {WriteFields(w.mem, mask, fields, i + 1)}} :
                    w \in {AccWrite(mem, mask, fields[i][1], fields[i][2])}} : TRUE

\* the assertions of write_info on the header h read from the device, and the same
\* without the one on the address width
InfoMatchesDeviceNoWidth(info, h) ==
    /\ h.id = MsiCapId
    /\ info.header.id = h.id
    /\ info.header.next = h.next
InfoMatchesDevice(info, h) ==
    /\ h.id = MsiCapId
    /\ info.header.id = h.id
    /\ info.header.next = h.next
    /\ is_64bit(info.header.extension) = is_64bit(h.extension)

\* the fields write_info writes to MsiCapability<N> at c, in order, as
\* <<offset, bytes>>; then the same with mask_bits and pending_bits written too, and
\* with data and addr[0] exchanged
InfoFieldsWholeStruct(c, info, N) ==
    << <<c, BytesOfHeader(info.header)>> >>
    \o [i \in 1..N |-> <<c + AddrOffset(i - 1), to_le_bytes(info.addr[i])>>]
    \o << <<c + DataOffset(N), to_le_bytes(info.data)>>,
          <<c + MaskBitsOffset(N), to_le_bytes(info.mask_bits)>>,
          <<c + PendingBitsOffset(N), to_le_bytes(info.pending_bits)>> >>
InfoFieldsDataAsAddr(c, info, N) ==
    << <<c, BytesOfHeader(info.header)>> >>
    \o [i \in 1..N |-> <<c + AddrOffset(i - 1), to_le_bytes(info.data)>>]
    \o << <<c + DataOffset(N), to_le_bytes(info.addr[1])>> >>
\* the same fields with the header written last
InfoFieldsHeaderLast(c, info, N) ==
    [i \in 1..N |-> <<c + AddrOffset(i - 1), to_le_bytes(info.addr[i])>>]
    \o << <<c + DataOffset(N), to_le_bytes(info.data)>>,
          <<c, BytesOfHeader(info.header)>> >>
InfoFields(c, info, N) ==
    << <<c, BytesOfHeader(info.header)>> >>
    \o [i \in 1..N |-> <<c + AddrOffset(i - 1), to_le_bytes(info.addr[i])>>]
    \o << <<c + DataOffset(N), to_le_bytes(info.data)>> >>

\* MsiCapabilityInfo::write_info
write_info(mem, mask, a, info) ==
    LET c == a.start_offset
        r0 == AccRead(mem, c, 4)
        h == HeaderOfBytes(r0.val)
    IN IF ~r0.ok THEN [res |-> BarPanic, mem |-> mem, log |-> r0.log]
       ELSE IF ~InfoMatchesDevice(info, h)
       THEN [res |-> BarPanic, mem |-> mem, log |-> r0.log]
       ELSE CHOOSE r \in
               {[res |-> UnitRet, mem |-> w.mem, log |-> r0.log \o w.log] :
                   w \in {WriteFields(mem, mask,
                              InfoFields(c, info, IF is_64bit(h.extension) THEN 2 ELSE 1),
                              1)}} : TRUE

\* the closures passed to update_info: enable MSI with a new address and data; set
\* the 64-bit flag of the control word; change nothing
Updates == {"enable", "widen", "identity"}
ApplyUpdate(f, info) ==
    IF f = "enable"
    THEN [info EXCEPT !.header.extension = @ + (IF @ % 2 = 0 THEN 1 ELSE 0),
                      !.addr[1] = U32(\hFEE0, \h1000),
                      !.data = U32(0, \h4041)]
    ELSE IF f = "widen"
    THEN [info EXCEPT !.header.extension = @ + (IF is_64bit(@) THEN 0 ELSE 128)]
    ELSE info

\* MsiCapabilityInfo::update_info: write_info(f(read_info()))
update_info(mem, mask, a, f) ==
    CHOOSE r \in
        UNION {IF rd.res.kind = "panic"
               THEN {[res |-> BarPanic, mem |-> mem, log |-> rd.log]}
               ELSE {[res |-> w.res, mem |-> w.mem, log |-> rd.log \o w.log] :
                        w \in {write_info(mem, mask, a, ApplyUpdate(f, rd.res.info))}} :
               rd \in {read_info(mem, a)}} : TRUE

\* where the capability lies (0x40), and the dwords of the device around it: the six
\* of the 64-bit layout and the one after them
MsiCapOffset == 64
MsiDwords == {MsiCapOffset + 4 * i : i \in 0..6}
MsiAcc == with_offset(RootAcc, MsiCapOffset)

\* control words of the device: 32-bit with 4 messages; 64-bit with 8 messages;
\* 64-bit with per-vector masking, enabled
DeviceControls == {\h0004, \h0086, \h0185}
DeviceNexts == {0, 96}
MsiMaskKinds == {"storage", "device"}

\* the dword at MsiCapOffset + 4i of the device before the first call
MsiInitialDword(i, id, nextbyte, control) ==
    IF i = 0 THEN from_le_bytes(BytesOfHeader(CapabilityHeader(id, nextbyte, control)))
    ELSE U32(\h1100 * i, \h0004 * i)

\* the writable bits: of the header only the enable bit and the enabled count
\* (bits 0 and 4-6 of the control word) on a device, everything on plain storage
MsiMaskOf(kind, i) ==
    IF kind = "device" /\ i = 0 THEN U32(\h0071, 0) ELSE U32Ones

\* the values written: id, next and width flag like and unlike the device's
InfoIds == {MsiCapId, OtherCapId}
InfoControls == {\h0011, \h00A1}
Infos ==
    {MsiCapability(CapabilityHeader(id, nx, control), U32(\hFEE0, \h2000),
                   U32(0, \h0001), U32(0, \h4055), U32(\hAAAA, \h5555),
                   U32(\h0F0F, \hF0F0)) :
        id \in InfoIds, nx \in DeviceNexts, control \in InfoControls}

NoMsiCall == [op |-> "none"]

InitMsi ==
    /\ \E id \in InfoIds, nx \in DeviceNexts, control \in DeviceControls :
        regs = [o \in MsiDwords |->
                  MsiInitialDword((o - MsiCapOffset) \div 4, id, nx, control)]
    /\ \E kind \in MsiMaskKinds :
        wmask = [o \in MsiDwords |-> MsiMaskOf(kind, (o - MsiCapOffset) \div 4)]
    /\ pre = regs
    /\ call = NoMsiCall
    /\ prev = NoMsiCall
    /\ ret = [kind |-> "none"]
    /\ log = <<>>
    /\ ncalls = 0
    /\ header = "endpoint"
    /\ acc = RootAcc
    /\ iter = NoIter
    /\ nexts = 0
    /\ procs = NoProcs

\* what every MSI call does to the history of calls
MsiCalled(c) ==
    /\ call' = c
    /\ prev' = call
    /\ pre' = regs
    /\ ncalls' = ncalls + 1
    /\ UNCHANGED <<wmask, header, acc, iter, nexts, procs>>

MsiCapType ==
    /\ ncalls < MaxMsiCalls
    /\ ~Halted
    /\ \E r \in {msi_cap_type(regs, MsiAcc)} :
        /\ ret' = r.res
        /\ log' = r.log
    /\ UNCHANGED regs
    /\ MsiCalled([op |-> "msi_cap_type"])

MsiFromHeaderCall ==
    /\ ncalls < MaxMsiCalls
    /\ ~Halted
    /\ \E N \in {1, 2} :
        /\ \E r \in {MsiFromHeader(regs, MsiAcc, N)} :
            /\ ret' = r.res
            /\ log' = r.log
        /\ MsiCalled([op |-> "from_header", N |-> N])
    /\ UNCHANGED regs

ReadInfo ==
    /\ ncalls < MaxMsiCalls
    /\ ~Halted
    /\ \E r \in {read_info(regs, MsiAcc)} :
        /\ ret' = r.res
        /\ log' = r.log
    /\ UNCHANGED regs
    /\ MsiCalled([op |-> "read_info"])

WriteInfo ==
    /\ ncalls < MaxMsiCalls
    /\ ~Halted
    /\ \E info \in Infos :
        /\ \E r \in {write_info(regs, wmask, MsiAcc, info)} :
            /\ ret' = r.res
            /\ regs' = r.mem
            /\ log' = r.log
        /\ MsiCalled([op |-> "write_info", info |-> info])

UpdateInfo ==
    /\ ncalls < MaxMsiCalls
    /\ ~Halted
    /\ \E f \in Updates :
        /\ \E r \in {update_info(regs, wmask, MsiAcc, f)} :
            /\ ret' = r.res
            /\ regs' = r.mem
            /\ log' = r.log
        /\ MsiCalled([op |-> "update_info", f |-> f])

NextMsi == MsiCapType \/ MsiFromHeaderCall \/ ReadInfo \/ WriteInfo \/ UpdateInfo

SpecMsi == InitMsi /\ [][NextMsi]_vars

-----------------------------------------------------------------------------
(* The MSI message control word: MessageControl(u16) *)

\* calls on one control word in one behaviour
MaxCtlCalls == 2

\* enum MultipleMessageSupport by discriminant: Int1 = 0, Int2 = 1, Int4 = 2,
\* Int8 = 3, Int16 = 4, Int32 = 5; the derived Ord is the order of the discriminants
Int1 == 0
Int32 == 5
MultipleMessageSupport == Int1..Int32

\* TryFrom<u8> for MultipleMessageSupport
TryFromU8(value) ==
    IF value \in MultipleMessageSupport THEN [ok |-> TRUE, val |-> value]
    ELSE [ok |-> FALSE]

\* u16::get_bits(a..=b) and u16::set_bits(a..=b, v) for v < 2^(b-a+1)
GetBitsU16(w, a, b) == (w \div (2 ^ a)) % (2 ^ (b - a + 1))
SetBitsU16(w, a, b, v) == w - GetBitsU16(w, a, b) * (2 ^ a) + v * (2 ^ a)

\* Ord::min on MultipleMessageSupport
MinSupport(x, y) == IF x <= y THEN x ELSE y
MaxSupport(x, y) == IF x <= y THEN y ELSE x

\* a MessageControl value in hand
Ctl(raw) == [kind |-> "ctrl", raw |-> raw]

\* MessageControl::multiple_message_capable: try_from(bits 1..=3).unwrap()
multiple_message_capable(raw) == TryFromU8(GetBitsU16(raw, 1, 3))

\* MessageControl::multiple_message_enable: try_from(bits 4..=6).unwrap_or(Int1)
multiple_message_enable(raw) ==
    LET r == TryFromU8(GetBitsU16(raw, 4, 6)) IN IF r.ok THEN r.val ELSE Int1

\* set_multiple_message_enable taking the larger of the two
set_multiple_message_enable_max(raw, value) ==
    LET capable == multiple_message_capable(raw) IN
    IF ~capable.ok THEN BarPanic
    ELSE Ctl(SetBitsU16(raw, 4, 6, MaxSupport(value, capable.val)))

\* MessageControl::set_multiple_message_enable: the argument of set_bits is
\* evaluated first, so the unwrap() fails before the word is touched
set_multiple_message_enable(raw, value) ==
    LET capable == multiple_message_capable(raw) IN
    IF ~capable.ok THEN BarPanic
    ELSE Ctl(SetBitsU16(raw, 4, 6, MinSupport(value, capable.val)))

\* MessageControl::set_msi_enable, clear_msi_enable: set_bit(0, ..)
set_msi_enable(raw) == Ctl(SetBitsU16(raw, 0, 0, 1))
clear_msi_enable(raw) == Ctl(SetBitsU16(raw, 0, 0, 0))

\* the control words new() is called with: every value of bits 0-8, with the
\* reserved bits 9-15 all clear or all set
CtlWords == {hi * 512 + lo : hi \in {0, 127}, lo \in 0..511}

NoCtlCall == [op |-> "new"]

\* MessageControl::new(raw); ret holds the control word in hand
InitCtl ==
    /\ \E raw \in CtlWords : ret = Ctl(raw)
    /\ regs = <<>>
    /\ wmask = <<>>
    /\ pre = <<>>
    /\ call = NoCtlCall
    /\ prev = NoCtlCall
    /\ log = <<>>
    /\ ncalls = 0
    /\ header = "none"
    /\ acc = RootAcc
    /\ iter = NoIter
    /\ nexts = 0
    /\ procs = NoProcs

\* what every call on the control word does to the history of calls
CtlCalled(c) ==
    /\ call' = c
    /\ ncalls' = ncalls + 1
    /\ UNCHANGED <<regs, wmask, pre, prev, log, header, acc, iter, nexts, procs>>

SetMultipleMessageEnable ==
    /\ ncalls < MaxCtlCalls
    /\ ~Halted
    /\ \E value \in MultipleMessageSupport :
        /\ ret' = set_multiple_message_enable(ret.raw, value)
        /\ CtlCalled([op |-> "set_multiple_message_enable", self |-> ret.raw,
                      value |-> value])

SetMsiEnable ==
    /\ ncalls < MaxCtlCalls
    /\ ~Halted
    /\ ret' = set_msi_enable(ret.raw)
    /\ CtlCalled([op |-> "set_msi_enable", self |-> ret.raw])

ClearMsiEnable ==
    /\ ncalls < MaxCtlCalls
    /\ ~Halted
    /\ ret' = clear_msi_enable(ret.raw)
    /\ CtlCalled([op |-> "clear_msi_enable", self |-> ret.raw])

NextCtl == SetMultipleMessageEnable \/ SetMsiEnable \/ ClearMsiEnable

SpecCtl == InitCtl /\ [][NextCtl]_vars

-----------------------------------------------------------------------------
(* The command/status dword: CmdSts, on a device with write-1-to-clear status bits *)

\* updates of the command/status dword in one behaviour
MaxCmdCalls == 2

\* CmdSts { cmd: Command, sts: Status }, repr(C): cmd is the lower half of the dword
CmdSts(cmd, sts) == [cmd |-> cmd, sts |-> sts]
CmdStsOfDword(d) == CmdSts(Lo(d), Hi(d))
DwordOfCmdSts(cs) == U32(cs.sts, cs.cmd)

\* Status::zero
StatusZero == 0

\* CmdSts::set_command and CmdSts::set_command_preserving_status, f applied as a
\* function on the command word
SetCommandKeepingStatus(cs, fcmd) == CmdSts(fcmd, cs.sts)
set_command(cs, fcmd) == CmdSts(fcmd, cs.sts)
set_command_preserving_status(cs, fcmd) == CmdSts(fcmd, StatusZero)

\* the closures f: set bus master (bit 2), set interrupt disable (bit 10) and clear
\* memory space (bit 1), leave the command as it is
CommandFns == {"bus_master", "intx_off_mem_off", "identity"}
ApplyCommand(f, cmd) ==
    IF f = "bus_master" THEN cmd - BitAnd(cmd, 4) + 4
    ELSE IF f = "intx_off_mem_off" THEN cmd - BitAnd(cmd, \h0402) + \h0400
    ELSE cmd

\* write_dword on the device: in the status half a 1 written to a write-1-to-clear
\* bit clears it, a 0 leaves it, and the other status bits are read-only; the
\* command half is stored.  w1c is the mask of the write-1-to-clear status bits.
W1CWrite(old, w1c, value) ==
    U32(Hi(old) - BitAnd(Hi(old), BitAnd(Hi(value), w1c)), Lo(value))

\* the device after the write_dword transactions of lg from position i on
RECURSIVE DeviceAfter(_, _, _, _)
DeviceAfter(mem, w1c, lg, i) ==
    IF i > Len(lg) THEN mem
    ELSE IF lg[i][1] = "write_dword"
    THEN DeviceAfter([mem EXCEPT ![lg[i][2]] = W1CWrite(@, w1c, lg[i][3])],
                     w1c, lg, i + 1)
    ELSE DeviceAfter(mem, w1c, lg, i + 1)

\* AccessorTrait::update on the cmdsts field of the header at a: write(f(read())),
\* the closure calling set_command_preserving_status(f) or set_command(f).
\* The field is one aligned dword, so the write is a single write_dword that reads
\* nothing; the device takes it as W1CWrite.
UpdateCmdSts(mem, w1c, a, preserving, f) ==
    CHOOSE res \in
        UNION {{[res |-> UnitRet,
                 mem |-> DeviceAfter(mem, w1c, w.log, 1),
                 log |-> r.log \o w.log] :
                   w \in {U32Write(mem, [o \in DOMAIN mem |-> U32Ones],
                                   a.start_offset + CmdStsOffset,
                                   DwordOfCmdSts(
                                       IF preserving
                                       THEN set_command_preserving_status(
                                                CmdStsOfDword(r.val),
                                                ApplyCommand(f, Lo(r.val)))
                                       ELSE set_command(
                                                CmdStsOfDword(r.val),
                                                ApplyCommand(f, Lo(r.val)))))}} :
               r \in {U32Read(mem, a.start_offset + CmdStsOffset)}} : TRUE

\* the first three dwords of the header: id, command/status, revision and class
CmdDwords == {0, 4, 8}
\* command words of the device; status words of the device (bit 4 is the
\* capability-list bit, bits 8 and 11-15 are error bits)
DeviceCommands == {\h0000, \h0006, \h0407}
DeviceStatuses == {\h0000, \h0010, \h4810, \hF910}
\* the write-1-to-clear status bits: all of them, or the error bits only
W1CMasks == {\hFFFF, \hF900}

NoCmdCall == [op |-> "none"]

\* in wmask the upper half of the dword at 0x04 is the mask of the
\* write-1-to-clear status bits
InitCmd ==
    /\ \E cmd \in DeviceCommands, sts \in DeviceStatuses :
        regs = [o \in CmdDwords |->
                  IF o = CmdStsOffset THEN U32(sts, cmd) ELSE U32(\h1234, \h8086 + o)]
    /\ \E w1c \in W1CMasks :
        wmask = [o \in CmdDwords |->
                  IF o = CmdStsOffset THEN U32(w1c, \hFFFF) ELSE U32Zero]
    /\ pre = regs
    /\ call = NoCmdCall
    /\ prev = NoCmdCall
    /\ ret = [kind |-> "none"]
    /\ log = <<>>
    /\ ncalls = 0
    /\ header = "endpoint"
    /\ acc = RootAcc
    /\ iter = NoIter
    /\ nexts = 0
    /\ procs = NoProcs

\* the write-1-to-clear status bits of the device
StatusW1C == Hi(wmask[CmdStsOffset])

CmdCalled(c, r) ==
    /\ ret' = r.res
    /\ regs' = r.mem
    /\ log' = r.log
    /\ call' = c
    /\ prev' = call
    /\ pre' = regs
    /\ ncalls' = ncalls + 1
    /\ UNCHANGED <<wmask, header, acc, iter, nexts, procs>>

\* acc.cmdsts.update(|mut cs| { cs.set_command_preserving_status(f); cs })
UpdateCommandPreservingStatus ==
    /\ ncalls < MaxCmdCalls
    /\ \E f \in CommandFns :
        \E r \in {UpdateCmdSts(regs, StatusW1C, acc, TRUE, f)} :
            CmdCalled([op |-> "set_command_preserving_status", f |-> f], r)

\* acc.cmdsts.update(|mut cs| { cs.set_command(f); cs })
UpdateCommand ==
    /\ ncalls < MaxCmdCalls
    /\ \E f \in CommandFns :
        \E r \in {UpdateCmdSts(regs, StatusW1C, acc, FALSE, f)} :
            CmdCalled([op |-> "set_command", f |-> f], r)

NextCmd == UpdateCommandPreservingStatus \/ UpdateCommand

SpecCmd == InitCmd /\ [][NextCmd]_vars

-----------------------------------------------------------------------------
(* bar(slot) of a 32-bit memory BAR step by step, with another caller on the slot *)

\* dword transactions of the other caller in one behaviour
MaxOtherOps == 2

\* a transaction in the log of interleaved callers: who issued it comes fourth
RdBy(who, offset, value) == <<"read_dword", offset, value, who>>
WrBy(who, offset, value) == <<"write_dword", offset, value, who>>

\* the slot probed and its dword
ProbeSlot == 0
ProbeOffset == BarOffset(ProbeSlot)

\* what the slot holds: KindRegs gives the raw dword and the writable mask
ProbeKinds == {"mem32", "mem32_prefetchable", "mem32_storage", "io"}
\* the addresses the other caller configures
OtherValues == {U32(\hD000, 0), U32(\hC000, 0)}

\* the prober: where it is in bar(slot), the raw dword it read, the readback
Prober(pc, raw, readback) == [pc |-> pc, bar |-> raw, readback |-> readback]
\* locked: the callers take a lock around every whole call (external mutual
\* exclusion); the code takes none
ProbeProcs(locked, prober) == [locked |-> locked, prober |-> prober]

InitProbe ==
    /\ \E kind \in ProbeKinds :
        /\ regs = [o \in {ProbeOffset} |-> KindRegs(kind)[1][1]]
        /\ wmask = [o \in {ProbeOffset} |-> KindRegs(kind)[1][2]]
    /\ \E locked \in BOOLEAN :
        procs = ProbeProcs(locked, Prober("idle", U32Zero, U32Zero))
    /\ pre = regs
    /\ call = NoBarCall
    /\ prev = NoBarCall
    /\ ret = [kind |-> "none"]
    /\ log = <<>>
    /\ ncalls = 0
    /\ header = "endpoint"
    /\ acc = RootAcc
    /\ iter = NoIter
    /\ nexts = 0

ProbeFrame == UNCHANGED <<wmask, prev, ncalls, header, acc, iter, nexts>>

\* let bar = bar_acc.read(); an I/O BAR returns at once
ProbeReadRaw ==
    /\ procs.prober.pc = "idle"
    /\ \E overflow_checks \in BOOLEAN :
        LET raw == read_dword(regs, ProbeOffset) IN
        /\ call' = [op |-> "bar", slot |-> ProbeSlot,
                    overflow_checks |-> overflow_checks]
        /\ pre' = regs
        /\ log' = Append(log, RdBy("bar", ProbeOffset, raw))
        /\ IF get_bit(raw, 0)
           THEN /\ ret' = Io(IoPort(raw))
                /\ procs' = [procs EXCEPT !.prober = Prober("done", raw, U32Zero)]
           ELSE /\ ret' = ret
                /\ procs' = [procs EXCEPT !.prober = Prober("read_raw", raw, U32Zero)]
    /\ UNCHANGED regs
    /\ ProbeFrame

\* bar_acc.write(0xfffffff0)
ProbeWrite ==
    /\ procs.prober.pc = "read_raw"
    /\ MemoryWidth(procs.prober.bar) = 0
    /\ regs' = write_dword(regs, wmask, ProbeOffset, ProbeLow)
    /\ log' = Append(log, WrBy("bar", ProbeOffset, ProbeLow))
    /\ procs' = [procs EXCEPT !.prober.pc = "probed"]
    /\ UNCHANGED <<pre, call, ret>>
    /\ ProbeFrame

\* let mut readback = bar_acc.read()
ProbeReadback ==
    /\ procs.prober.pc = "probed"
    /\ LET readback == read_dword(regs, ProbeOffset) IN
        /\ log' = Append(log, RdBy("bar", ProbeOffset, readback))
        /\ procs' = [procs EXCEPT !.prober.pc = "read_back",
                                  !.prober.readback = readback]
    /\ UNCHANGED <<regs, pre, call, ret>>
    /\ ProbeFrame

\* bar_acc.write(address), and the result computed from the locals
ProbeRestore ==
    /\ procs.prober.pc = "read_back"
    /\ LET address == BarAddress(procs.prober.bar)
           readback == procs.prober.readback
           sz == Memory32Size(readback, call.overflow_checks)
       IN /\ regs' = write_dword(regs, wmask, ProbeOffset, address)
          /\ log' = Append(log, WrBy("bar", ProbeOffset, address))
          /\ ret' = IF readback = U32Zero THEN BarNone
                    ELSE IF ~sz.ok THEN BarPanic
                    ELSE Memory32(address, sz.size, get_bit(procs.prober.bar, 3))
    /\ procs' = [procs EXCEPT !.prober.pc = "done"]
    /\ UNCHANGED <<pre, call>>
    /\ ProbeFrame

\* the other caller may issue a transaction: always when the calls are not
\* serialised, and only outside the prober's call when they are
OtherMayRunAlways == TRUE
OtherMayRun == ~procs.locked \/ procs.prober.pc \in {"idle", "done"}

\* the other caller's read_dword of the slot
OtherReadDword ==
    /\ ncalls < MaxOtherOps
    /\ OtherMayRun
    /\ log' = Append(log, RdBy("other", ProbeOffset, read_dword(regs, ProbeOffset)))
    /\ ncalls' = ncalls + 1
    /\ UNCHANGED <<regs, wmask, pre, call, prev, ret, header, acc, iter, nexts, procs>>

\* the other caller's write_dword to the slot
OtherWriteDword ==
    /\ ncalls < MaxOtherOps
    /\ OtherMayRun
    /\ \E value \in OtherValues :
        /\ regs' = write_dword(regs, wmask, ProbeOffset, value)
        /\ log' = Append(log, WrBy("other", ProbeOffset, value))
    /\ ncalls' = ncalls + 1
    /\ UNCHANGED <<wmask, pre, call, prev, ret, header, acc, iter, nexts, procs>>

NextProbe ==
    \/ ProbeReadRaw \/ ProbeWrite \/ ProbeReadback \/ ProbeRestore
    \/ OtherReadDword \/ OtherWriteDword

SpecProbe == InitProbe /\ [][NextProbe]_vars

-----------------------------------------------------------------------------
(* An aligned multi-dword read() and write() of one field, step by step *)

\* dwords of the field read and written
TearDwords == 2

\* where the field starts in the region
TearStarts == {0, 8}
TearOffsets == {4 * i : i \in 0..(2 + TearDwords)}

\* dword k of the field before the write, in two devices; the values written
OldDword(device, k) == U32(\h1000 * device + k, \h0A00 + k)
NewValues == {"ones", "count", "mixed"}
NewDword(value, k) ==
    IF value = "ones" THEN U32Ones
    ELSE IF value = "count" THEN U32(\hC000 + k, \h0B00 + k)
    ELSE IF k = 0 THEN OldDword(1, 0) ELSE U32(\hD000, k)
\* the bytes of T the writer passes to write()
NewBytes(value) ==
    [j \in 1..(4 * TearDwords) |-> to_le_bytes(NewDword(value, (j - 1) \div 4))[((j - 1) % 4) + 1]]

\* a caller in the loop of read() or write(): its loop index i and its buffer
Looping(i, buf) == [i |-> i, buf |-> buf]
TearProcs(locked, reader, writer) ==
    [locked |-> locked, reader |-> reader, writer |-> writer]

InitTear ==
    /\ \E device \in {1, 2}, start \in TearStarts :
        /\ regs = [o \in TearOffsets |->
                     IF o >= start /\ o < start + 4 * TearDwords
                     THEN OldDword(device, (o - start) \div 4) ELSE U32(\hEEEE, o)]
        /\ acc = with_offset(RootAcc, start)
    /\ \E locked \in BOOLEAN, value \in NewValues :
        procs = TearProcs(locked, Looping(0, <<>>), Looping(0, NewBytes(value)))
    /\ wmask = [o \in TearOffsets |-> U32Ones]
    /\ pre = regs
    /\ call = [op |-> "read", offset |-> acc.start_offset, size |-> 4 * TearDwords]
    /\ prev = [op |-> "write", offset |-> acc.start_offset, size |-> 4 * TearDwords]
    /\ ret = [kind |-> "none"]
    /\ log = <<>>
    /\ ncalls = 0
    /\ header = "none"
    /\ iter = NoIter
    /\ nexts = 0

\* the transactions of a chunk, with the caller that issued them
IssuedBy(who, lg) == [i \in 1..Len(lg) |-> Append(lg[i], who)]

\* a caller may take a step: always when the calls are not serialised, and only
\* while the other caller is outside its loop when they are
MidCall(p) == p.i > 0 /\ p.i < TearDwords
TearMayStepAlways(other) == TRUE
TearMayStep(other) == ~procs.locked \/ ~MidCall(other)

\* one iteration of the loop of read(): read_dword of chunk i into the buffer
ReaderStep ==
    /\ procs.reader.i < TearDwords
    /\ TearMayStep(procs.writer)
    /\ \E r \in {ReadChunks(regs, acc.start_offset, procs.reader.i,
                            procs.reader.i + 1)} :
        /\ procs' = [procs EXCEPT !.reader =
                        Looping(procs.reader.i + 1, procs.reader.buf \o r.val)]
        /\ log' = log \o IssuedBy("reader", r.log)
        /\ ret' = IF procs.reader.i + 1 = TearDwords
                  THEN [kind |-> "value", val |-> procs.reader.buf \o r.val]
                  ELSE ret
    /\ UNCHANGED <<regs, wmask, pre, call, prev, ncalls, header, acc, iter, nexts>>

\* one iteration of the loop of write(): write_dword of chunk i of the value
WriterStep ==
    /\ procs.writer.i < TearDwords
    /\ TearMayStep(procs.reader)
    /\ \E w \in {WriteChunks(regs, wmask, acc.start_offset, procs.writer.buf,
                             procs.writer.i, procs.writer.i + 1)} :
        /\ regs' = w.mem
        /\ log' = log \o IssuedBy("writer", w.log)
    /\ procs' = [procs EXCEPT !.writer.i = @ + 1]
    /\ UNCHANGED <<wmask, pre, call, prev, ret, ncalls, header, acc, iter, nexts>>

NextTear == ReaderStep \/ WriterStep

SpecTear == InitTear /\ [][NextTear]_vars

-----------------------------------------------------------------------------
(* The fields of the header overlays: #[repr(C)] layout and map_field! *)

\* field accesses in one behaviour
MaxFieldCalls == 2

Field(name, ty, size, align) == [name |-> name, ty |-> ty, size |-> size, align |-> align]

\* the fields of the #[repr(C)] structs in declaration order
StructFields(ty) ==
    CASE ty = "EndpointHeader" ->
           << Field("header", "PciHeader", 16, 2),
              Field("bar_raw", "[u32; 6]", 24, 4),
              Field("cardbus_cis_pointer", "u32", 4, 4),
              Field("subsystem_ids", "IDs", 4, 2),
              Field("expansion_rom_base_address", "u32", 4, 4),
              Field("capabilities_pointer", "u8", 1, 1),
              Field("_reserved_35_3b", "[u8; 7]", 7, 1),
              Field("interrupt", "Intr", 2, 1),
              Field("limits", "EPLimits", 2, 1) >>
      [] ty = "PciPciBridgeHeader" ->
           << Field("header", "PciHeader", 16, 2),
              Field("bar_raw", "[u32; 2]", 8, 4),
              Field("bus_nos", "BusNos", 4, 1),
              Field("iobase", "u8", 1, 1),
              Field("iolimit", "u8", 1, 1),
              Field("secondary_status", "Status", 2, 2),
              Field("memory_base", "u16", 2, 2),
              Field("memory_limit", "u16", 2, 2),
              Field("prefetchable_memory_base", "u16", 2, 2),
              Field("prefetchable_memory_limit", "u16", 2, 2),
              Field("prefetchable_base_upper_32", "u32", 4, 4),
              Field("prefetchable_limit_upper_32", "u32", 4, 4),
              Field("iobase_upper_16", "u16", 2, 2),
              Field("iolimit_upper_16", "u16", 2, 2),
              Field("capabilities_pointer", "u8", 1, 1),
              Field("_reserved_35_3b", "[u8; 3]", 3, 1),
              Field("expansion_rom_base_address", "u32", 4, 4),
              Field("interrupt", "Intr", 2, 1),
              Field("bridge_control", "BridgeControl", 2, 2) >>
      [] ty = "Intr" ->
           << Field("interrupt_pin", "u8", 1, 1),
              Field("interrupt_line", "u8", 1, 1) >>
      [] ty = "EPLimits" ->
           << Field("min_grant", "u8", 1, 1),
              Field("max_latency", "u8", 1, 1) >>

AlignUp(n, align) == ((n + align - 1) \div align) * align

RECURSIVE LayoutOffset(_, _)
\* #[repr(C)]: field i starts after field i-1, rounded up to its alignment
LayoutOffset(fields, i) ==
    IF i = 1 THEN 0
    ELSE AlignUp(LayoutOffset(fields, i - 1) + fields[i - 1].size, fields[i].align)

FieldIndex(fields, name) == CHOOSE i \in 1..Len(fields) : fields[i].name = name
FieldOf(ty, name) == StructFields(ty)[FieldIndex(StructFields(ty), name)]
\* addr_of_mut!((*ptr).name) of a ptr to ty, as an offset from ptr
offset_of(ty, name) == LayoutOffset(StructFields(ty), FieldIndex(StructFields(ty), name))

\* map_field!(acc.outer.inner) of an accessor of ty: an accessor of the inner field
map_field(a, ty, path) ==
    with_offset(a, a.start_offset + offset_of(ty, path[1])
                     + offset_of(FieldOf(ty, path[1]).ty, path[2]))

\* the overlay type of a header and the byte fields of its last dword
OverlayOf(h) == IF h = "endpoint" THEN "EndpointHeader" ELSE "PciPciBridgeHeader"
BytePaths(h) ==
    {<<"interrupt", "interrupt_line">>, <<"interrupt", "interrupt_pin">>}
    \cup IF h = "endpoint"
         THEN {<<"limits", "min_grant">>, <<"limits", "max_latency">>}
         ELSE {}

\* the dwords at 0x38 and 0x3C
LastDwords == {56, 60}
\* byte p of the header holds 0x80 + p before the first call
LastDwordsInit(o) == from_le_bytes([k \in 1..4 |-> 128 + o + k - 1])
\* the bytes written
FieldValues == {10, 11}

NoFieldCall == [op |-> "none", path |-> <<>>, value |-> 0]

InitField ==
    /\ header \in {"endpoint", "bridge"}
    /\ acc = RootAcc
    /\ regs = [o \in LastDwords |-> LastDwordsInit(o)]
    /\ \E m \in {U32Ones, U32(\hFFFF, \h00FF)} : wmask = [o \in LastDwords |-> m]
    /\ pre = regs
    /\ call = NoFieldCall
    /\ prev = NoFieldCall
    /\ ret = NoRet
    /\ log = <<>>
    /\ ncalls = 0
    /\ iter = NoIter
    /\ nexts = 0
    /\ procs = NoProcs

\* map_field!(acc.outer.inner).read()
FieldRead ==
    /\ ncalls < MaxFieldCalls
    /\ ~Halted
    /\ \E path \in BytePaths(header) :
        /\ LET r == AccRead(regs, map_field(acc, OverlayOf(header), path).start_offset, 1)
           IN /\ ret' = [kind |-> IF r.ok THEN "value" ELSE "panic", val |-> r.val]
              /\ log' = r.log
              /\ regs' = r.mem
        /\ call' = [op |-> "read", path |-> path, value |-> 0]
    /\ prev' = call
    /\ pre' = regs
    /\ ncalls' = ncalls + 1
    /\ UNCHANGED <<wmask, header, acc, iter, nexts, procs>>

\* map_field!(acc.outer.inner).write(value)
FieldWrite ==
    /\ ncalls < MaxFieldCalls
    /\ ~Halted
    /\ \E path \in BytePaths(header), value \in FieldValues :
        /\ LET r == AccWrite(regs, wmask,
                             map_field(acc, OverlayOf(header), path).start_offset,
                             <<value>>)
           IN /\ ret' = [kind |-> IF r.ok THEN "unit" ELSE "panic", val |-> <<>>]
              /\ log' = r.log
              /\ regs' = r.mem
        /\ call' = [op |-> "write", path |-> path, value |-> value]
    /\ prev' = call
    /\ pre' = regs
    /\ ncalls' = ncalls + 1
    /\ UNCHANGED <<wmask, header, acc, iter, nexts, procs>>

NextField == FieldRead \/ FieldWrite

SpecField == InitField /\ [][NextField]_vars

-----------------------------------------------------------------------------
(* update(f), update_info(f) and a sub-dword write() step by step, two callers *)

\* the two callers; a's call is in call and b's in prev
UpdCallers == {"a", "b"}
OtherCaller(who) == IF who = "a" THEN "b" ELSE "a"
CallOf(who) == IF who = "a" THEN call ELSE prev

UpdCall(op, offset, size, f, value) ==
    [op |-> op, offset |-> offset, size |-> size, f |-> f, value |-> value]

\* the field the callers share: the dword after the capability header
SharedOffset == MsiCapOffset + AddrOffset(0)

\* the pairs of calls tried: update of the same u32 field; update of the two u16
\* halves of one dword; write of two different bytes of one dword; update_info
\* twice on a 32-bit capability, and update_info with a write of addr[0] on a
\* 64-bit one
UpdPairs(control) ==
    { << UpdCall("update", SharedOffset, 4, "set_byte0", <<>>),
         UpdCall("update", SharedOffset, 4, "set_byte1", <<>>) >>,
      << UpdCall("update", SharedOffset, 2, "set_byte0", <<>>),
         UpdCall("update", SharedOffset + 2, 2, "set_byte0", <<>>) >>,
      << UpdCall("write", SharedOffset, 1, "none", <<161>>),
         UpdCall("write", SharedOffset + 1, 1, "none", <<178>>) >>,
      IF is_64bit(control)
      THEN << UpdCall("update_info", MsiCapOffset, 0, "identity", <<>>),
              UpdCall("write", SharedOffset, 4, "none", to_le_bytes(U32(\hFEE0, \h3000))) >>
      ELSE << UpdCall("update_info", MsiCapOffset, 0, "enable", <<>>),
              UpdCall("update_info", MsiCapOffset, 0, "identity", <<>>) >> }

\* the closures passed to update: |mut x| { x.0 = 0xA1; x } and the like
ApplyField(f, val) ==
    IF f = "set_byte0" THEN [val EXCEPT ![1] = 161]
    ELSE IF f = "set_byte1" THEN [val EXCEPT ![2] = 178]
    ELSE val

\* self.read() of update, Self::read_info of update_info; write() reads nothing
\* before it starts
ReadPhase(c, mem) ==
    IF c.op = "update"
    THEN CHOOSE x \in {[ok |-> r.ok, val |-> r.val, log |-> r.log] :
                          r \in {AccRead(mem, c.offset, c.size)}} : TRUE
    ELSE IF c.op = "update_info"
    THEN CHOOSE x \in {[ok |-> r.res.kind # "panic", val |-> r.res, log |-> r.log] :
                          r \in {read_info(mem, with_offset(RootAcc, c.offset))}} : TRUE
    ELSE [ok |-> TRUE, val |-> c.value, log |-> <<>>]

\* f(...) applied to what was read
ValueWritten(c, val) ==
    IF c.op = "update" THEN ApplyField(c.f, val)
    ELSE IF c.op = "update_info" THEN ApplyUpdate(c.f, val.info)
    ELSE c.value

\* self.write(...) of update and of write, Self::write_info of update_info
WritePhase(c, mem, mask, v) ==
    IF c.op = "update_info"
    THEN CHOOSE x \in {[ok |-> w.res.kind # "panic", mem |-> w.mem, log |-> w.log] :
                          w \in {write_info(mem, mask, with_offset(RootAcc, c.offset), v)}} : TRUE
    ELSE CHOOSE x \in {[ok |-> w.ok, mem |-> w.mem, log |-> w.log] :
                          w \in {AccWrite(mem, mask, c.offset, v)}} : TRUE

\* the whole call with nothing in between
WholeCall(c, mem, mask) ==
    CHOOSE m \in
        UNION {IF ~r.ok THEN {mem}
               ELSE {w.mem : w \in {WritePhase(c, mem, mask, ValueWritten(c, r.val))}} :
               r \in {ReadPhase(c, mem)}} : TRUE

\* a caller inside its call: the phase, the transactions issued in the phase (k) and
\* in the call (n), the dwords read in the phase with the values returned, and the
\* value to write
Caller(phase, k, n, seen, view, val) ==
    [phase |-> phase, k |-> k, n |-> n, seen |-> seen, view |-> view, val |-> val]
\* locked: the callers take a lock around every whole call (external mutual
\* exclusion); the code takes none
UpdProcs(locked, a, b) == [locked |-> locked, a |-> a, b |-> b]

\* the device as the caller has seen it in this phase: the dwords it has read as
\* they were returned, the others as they are
CurView(p) == [o \in DOMAIN regs |-> IF o \in p.seen THEN p.view[o] ELSE regs[o]]

InitUpd ==
    /\ \E control \in DeviceControls :
        /\ regs = [o \in MsiDwords |->
                     MsiInitialDword((o - MsiCapOffset) \div 4, MsiCapId, 0, control)]
        /\ \E pair \in UpdPairs(control) :
            /\ call = pair[1]
            /\ prev = pair[2]
            /\ \E locked \in BOOLEAN :
                procs = UpdProcs(locked,
                            Caller(IF pair[1].op = "write" THEN "write" ELSE "read",
                                   0, 0, {}, regs, pair[1].value),
                            Caller(IF pair[2].op = "write" THEN "write" ELSE "read",
                                   0, 0, {}, regs, pair[2].value))
    /\ \E kind \in MsiMaskKinds :
        wmask = [o \in MsiDwords |-> MsiMaskOf(kind, (o - MsiCapOffset) \div 4)]
    /\ pre = regs
    /\ ret = [kind |-> "none"]
    /\ log = <<>>
    /\ ncalls = 0
    /\ header = "endpoint"
    /\ acc = RootAcc
    /\ iter = NoIter
    /\ nexts = 0

\* a caller may issue a transaction: always when the calls are not serialised, and
\* only while the other caller is outside its call when they are
InCall(p) == p.n > 0 /\ p.phase \in {"read", "write"}
UpdMayStepAlways(who) == TRUE
UpdMayStep(who) == ~procs.locked \/ ~InCall(procs[OtherCaller(who)])

\* the next read_dword of self.read() or of read_info; after the last one f is
\* applied to the value read
UpdReadStep ==
    \E who \in UpdCallers :
        /\ procs[who].phase = "read"
        /\ UpdMayStep(who)
        /\ \E r \in {ReadPhase(CallOf(who), CurView(procs[who]))} :
            LET p == procs[who]
                t == r.log[p.k + 1]
                last == p.k + 1 = Len(r.log)
            IN /\ log' = Append(log, RdBy(who, t[2], regs[t[2]]))
               /\ procs' = [procs EXCEPT ![who] =
                    IF ~last
                    THEN Caller("read", p.k + 1, p.n + 1, p.seen \cup {t[2]},
                                [p.view EXCEPT ![t[2]] = regs[t[2]]], p.val)
                    ELSE IF ~r.ok
                    THEN Caller("failed", 0, p.n + 1, {}, p.view, p.val)
                    ELSE Caller("write", 0, p.n + 1, {}, p.view,
                                ValueWritten(CallOf(who), r.val))]
        /\ UNCHANGED <<regs, wmask, pre, call, prev, ret, ncalls, header, acc, iter, nexts>>

\* the next transaction of self.write(...) or of write_info: the read_dword of a
\* sub-dword write or of the header, or a write_dword
UpdWriteStep ==
    \E who \in UpdCallers :
        /\ procs[who].phase = "write"
        /\ UpdMayStep(who)
        /\ \E w \in {WritePhase(CallOf(who), CurView(procs[who]), wmask, procs[who].val)} :
            LET p == procs[who]
                t == w.log[p.k + 1]
                last == p.k + 1 = Len(w.log)
                phase == IF ~last THEN "write" ELSE IF w.ok THEN "done" ELSE "failed"
            IN IF t[1] = "read_dword"
               THEN /\ log' = Append(log, RdBy(who, t[2], regs[t[2]]))
                    /\ procs' = [procs EXCEPT ![who] =
                          Caller(phase, p.k + 1, p.n + 1, p.seen \cup {t[2]},
                                 [p.view EXCEPT ![t[2]] = regs[t[2]]], p.val)]
                    /\ UNCHANGED regs
               ELSE /\ log' = Append(log, WrBy(who, t[2], t[3]))
                    /\ regs' = write_dword(regs, wmask, t[2], t[3])
                    /\ procs' = [procs EXCEPT ![who] =
                          Caller(phase, p.k + 1, p.n + 1, p.seen, p.view, p.val)]
        /\ UNCHANGED <<wmask, pre, call, prev, ret, ncalls, header, acc, iter, nexts>>

NextUpd == UpdReadStep \/ UpdWriteStep

SpecUpd == InitUpd /\ [][NextUpd]_vars

-----------------------------------------------------------------------------
(* Claims about the accessor, checked under Spec *)

\* the aligned base of the dword holding the first byte of the last call's field
CallBase == call.offset - (call.offset % 4)
\* the last call's field lies inside one dword
InOneDword == call.offset \div 4 = (call.offset + call.size - 1) \div 4
\* the last call is the read of the field the call before it wrote
ReadOfWritten ==
    /\ call.op = "read"
    /\ prev.op = "write"
    /\ prev.offset = call.offset
    /\ prev.size = call.size
\* the dwords the last call's field occupies
DwordsOfField == {o \in DOMAIN regs : o >= CallBase /\ o < call.offset + call.size}
\* the channel returns what was last written, for the dwords of the field
StoresWhatIsWritten == \A o \in DwordsOfField : wmask[o] = U32Ones

\* C1: a sub-dword write(v) followed by read() of the same field, the field inside
\* one dword and the channel returning what was last written, returns v.
C1_SubDwordWriteThenRead ==
    (ReadOfWritten /\ call.size < 4 /\ InOneDword /\ StoresWhatIsWritten)
        => (ret.kind = "value" /\ ret.val = prev.value)

C1_Witness ==
    /\ ReadOfWritten /\ call.size = 3 /\ call.offset = 5
    /\ StoresWhatIsWritten
    /\ ret.val = <<252, 236, 220>>

\* C2: a sub-dword write(v) issues one read_dword then one write_dword, both at the
\* containing aligned base; the dword written differs from the dword read only in
\* the little-endian bytes of the field's span; the other bytes of that dword and
\* every other dword of the region are unchanged.
C2_SubDwordWriteFrame ==
    (call.op = "write" /\ call.size < 4 /\ InOneDword) =>
        /\ ret.kind = "unit"
        /\ Len(log) = 2
        /\ log[1] = Rd(CallBase, pre[CallBase])
        /\ log[2][1] = "write_dword" /\ log[2][2] = CallBase
        /\ \A k \in 1..4 :
              LET pos == k - 1 - (call.offset % 4)
              IN IF pos >= 0 /\ pos < call.size
                 THEN to_le_bytes(log[2][3])[k] = call.value[pos + 1]
                 ELSE /\ to_le_bytes(log[2][3])[k] = to_le_bytes(log[1][3])[k]
                      /\ to_le_bytes(regs[CallBase])[k] = to_le_bytes(pre[CallBase])[k]
        /\ \A o \in DOMAIN regs : o # CallBase => regs[o] = pre[o]

C2_Witness ==
    /\ call.op = "write" /\ call.size = 2 /\ call.offset = 1
    /\ Len(log) = 2
    /\ regs[0] # pre[0]
    /\ to_le_bytes(regs[0])[1] = 17 /\ to_le_bytes(regs[0])[4] = 20
    /\ to_le_bytes(regs[0])[2] = 253 /\ to_le_bytes(regs[0])[3] = 237

\* C3: for a T whose size is a multiple of 4 at an aligned offset, write(v) followed
\* by read() returns v byte for byte, byte j of T being little-endian byte (j mod 4)
\* of the dword at base + 4 * (j div 4).
C3_AlignedWriteThenRead ==
    (ReadOfWritten /\ call.size >= 4 /\ call.size % 4 = 0 /\ call.offset % 4 = 0
        /\ StoresWhatIsWritten) =>
        /\ ret.kind = "value"
        /\ ret.val = prev.value
        /\ \A j \in 0..(call.size - 1) :
              to_le_bytes(regs[call.offset + 4 * (j \div 4)])[(j % 4) + 1]
                  = prev.value[j + 1]

C3_Witness ==
    /\ ReadOfWritten /\ call.size = 8 /\ call.offset = 0
    /\ StoresWhatIsWritten
    /\ ret.val = <<247, 231, 215, 199, 183, 167, 151, 135>>

\* C4: an aligned read() of a T of size 4n issues exactly n read_dword, at base,
\* base+4, ... in ascending order, and no write_dword; an aligned write(v) issues
\* exactly n write_dword at the same offsets in ascending order and no read_dword;
\* a sub-dword read() issues exactly one read_dword, at the containing aligned base.
C4_TransactionsOfACall ==
    /\ (call.op \in {"read", "write"} /\ call.size >= 4 /\ call.size % 4 = 0
            /\ call.offset % 4 = 0) =>
          /\ Len(log) = call.size \div 4
          /\ \A i \in 1..Len(log) :
                /\ log[i][1] = (IF call.op = "read" THEN "read_dword" ELSE "write_dword")
                /\ log[i][2] = call.offset + 4 * (i - 1)
    /\ (call.op = "read" /\ call.size < 4 /\ InOneDword) =>
          /\ Len(log) = 1
          /\ log[1][1] = "read_dword"
          /\ log[1][2] = CallBase

C4_Witness ==
    /\ call.op = "read" /\ call.size = 8 /\ call.offset = 0
    /\ Len(log) = 2
    /\ log[1][2] = 0 /\ log[2][2] = 4

\* C5: a sub-dword read() or write() whose first and last byte lie in different
\* dwords fails fatally before any read_dword or write_dword; the region is unchanged.
C5_SpanningAccessFails ==
    (call.op \in {"read", "write"} /\ call.size < 4 /\ ~InOneDword) =>
        /\ ret.kind = "panic"
        /\ log = <<>>
        /\ regs = pre

C5_Witness ==
    /\ call.op = "read" /\ call.size = 2 /\ call.offset = 3
    /\ ret.kind = "panic"

\* C6: a read() or write() of a T with size >= 4 fails fatally when the start offset
\* is not a multiple of 4 or the size is not a multiple of 4, before any transaction.
C6_MisalignedAccessFails ==
    (call.op \in {"read", "write"} /\ call.size >= 4
        /\ (call.offset % 4 # 0 \/ call.size % 4 # 0)) =>
        /\ ret.kind = "panic"
        /\ log = <<>>
        /\ regs = pre

C6_Witness ==
    /\ call.op = "write" /\ call.size = 6 /\ call.offset = 0
    /\ ret.kind = "panic"
    /\ regs = pre

-----------------------------------------------------------------------------
(* Claims about bar and bar_base_only, checked under SpecBar *)

\* the last call decoded a slot of the header
DecodedSlot == call.op \in {"bar", "bar_base_only"} /\ call.slot < MaxBarsOf(header)
\* the raw dword of the slot when the call started
RawOfSlot == pre[BarOffset(call.slot)]
\* the slot's raw dword is a 32-bit memory BAR: bit 0 = 0, bits 1-2 = 00
RawIsMemory32 == Lo(RawOfSlot) % 8 = 0
IsWriteTo(i, o) == log[i][1] = "write_dword" /\ log[i][2] = o
IsReadOf(i, o) == log[i][1] = "read_dword" /\ log[i][2] = o
WrittenOffsets == {log[i][2] : i \in {j \in 1..Len(log) : log[j][1] = "write_dword"}}
\* the dword of the last write_dword of the call to o
LastWritten(o) ==
    log[CHOOSE i \in 1..Len(log) :
            IsWriteTo(i, o) /\ \A j \in (i + 1)..Len(log) : ~IsWriteTo(j, o)][3]
\* the dword of the first read_dword of the call of o
FirstRead(o) ==
    log[CHOOSE i \in 1..Len(log) :
            IsReadOf(i, o) /\ \A j \in 1..(i - 1) : ~IsReadOf(j, o)][3]
\* the dword a 32-bit probe read back (read, write probe, read back, restore)
Readback32 == log[3][3]
ClearLow4(d) == U32(Hi(d), Lo(d) - (Lo(d) % 16))

\* C7 as claimed: when bar(slot) returns after writing a probe pattern, the last
\* write_dword to each slot it wrote carries exactly the dword it read from that
\* slot before probing, all 32 bits.  The code writes back the address with bits
\* 0-3 cleared, so the formula fails for a prefetchable or a 64-bit BAR.
C7_RestoreWritesOriginalDword ==
    (call.op = "bar" /\ ret.kind # "panic") =>
        \A o \in WrittenOffsets : LastWritten(o) = FirstRead(o)

\* C8 as claimed: for a raw dword with bit 0 = 0 and bits 1-2 = 00, bar(slot)
\* returns Memory32 with address = raw with bits 0-3 cleared, prefetchable = bit 3 of
\* raw and size = 1 << trailing zeros of the masked readback.
C8_Memory32DecodeAlways ==
    (call.op = "bar" /\ DecodedSlot /\ RawIsMemory32) =>
        /\ ret.kind = "Memory32"
        /\ ret.address = ClearLow4(RawOfSlot)
        /\ ret.prefetchable = ((Lo(RawOfSlot) \div 8) % 2 = 1)
        /\ trailing_zeros(ClearLow4(Readback32)) < 32
        /\ ret.size = Shl1U32(trailing_zeros(ClearLow4(Readback32)))

\* C8 as amended: the same, for a readback that is not zero once bits 0-3 are
\* cleared; a masked readback of 0xFFFFFFE0 gives size 0x20.
C8_Memory32Decode ==
    (call.op = "bar" /\ DecodedSlot /\ RawIsMemory32
        /\ ClearLow4(Readback32) # U32Zero) =>
        /\ ret.kind = "Memory32"
        /\ ret.address = ClearLow4(RawOfSlot)
        /\ ret.prefetchable = ((Lo(RawOfSlot) \div 8) % 2 = 1)
        /\ ret.size = Shl1U32(trailing_zeros(ClearLow4(Readback32)))
        /\ (ClearLow4(Readback32) = U32(\hFFFF, \hFFE0) => ret.size = U32(0, 32))

C8_Witness ==
    /\ call.op = "bar" /\ DecodedSlot /\ RawIsMemory32
    /\ ClearLow4(Readback32) = U32(\hFFFF, \hFFE0)
    /\ ret = Memory32(U32(\hFEB0, 0), U32(0, 32), FALSE)

\* C9 as claimed: for a 32-bit memory BAR, whenever the readback with bits 0-3
\* masked off is zero, bar(slot) returns None, whatever bits 0-3 of the readback.
\* The code compares the unmasked readback with zero.
C9_ZeroMaskedReadbackIsNone ==
    (call.op = "bar" /\ DecodedSlot /\ RawIsMemory32
        /\ ClearLow4(Readback32) = U32Zero) =>
        ret.kind = "None"

\* C10: for a raw dword with bit 0 = 1, bar(slot) and bar_base_only(slot) return Io
\* with port = raw with bits 0-1 cleared (0xFFFFFFF1 gives 0xFFFFFFF0) and issue no
\* write_dword.
C10_IoBarDecode ==
    (DecodedSlot /\ Lo(RawOfSlot) % 2 = 1) =>
        /\ ret = Io(U32(Hi(RawOfSlot), Lo(RawOfSlot) - (Lo(RawOfSlot) % 4)))
        /\ (RawOfSlot = U32(\hFFFF, \hFFF1) => ret.port = U32(\hFFFF, \hFFF0))
        /\ \A i \in 1..Len(log) : log[i][1] # "write_dword"
        /\ regs = pre

C10_Witness ==
    /\ call.op = "bar" /\ DecodedSlot
    /\ RawOfSlot = U32(\hFFFF, \hFFF1)
    /\ ret = Io(U32(\hFFFF, \hFFF0))
    /\ Len(log) = 1

\* the slot's raw dword is a 64-bit memory BAR: bit 0 = 0, bits 1-2 = 10
RawIsMemory64 == Lo(RawOfSlot) % 8 = 4
\* the slot's raw dword is a memory BAR of a reserved width: bit 0 = 0, bits 1-2 = 01 or 11
RawIsReserved == Lo(RawOfSlot) % 8 \in {2, 6}
\* the raw dword of the slot after the call's slot when the call started
RawOfNextSlot == pre[BarOffset(call.slot + 1)]
NoWriteDword == \A i \in 1..Len(log) : log[i][1] # "write_dword"
\* position in the log of the last write_dword of the call to o
LastWriteIndex(o) ==
    CHOOSE i \in 1..Len(log) :
        IsWriteTo(i, o) /\ \A j \in (i + 1)..Len(log) : ~IsWriteTo(j, o)

\* C11 as claimed: for a raw dword with bit 0 = 0 and bits 1-2 = 10 in a slot that
\* is not the last, bar(slot) returns Memory64 with address = the dword of the next
\* slot as bits 32-63 over the raw dword with bits 0-3 cleared, and prefetchable =
\* bit 3 of the raw dword.  When both readbacks of the probe are zero the size shift
\* is 64 and bar fails instead of returning.
C11_Memory64Decode ==
    (call.op = "bar" /\ DecodedSlot /\ RawIsMemory64
        /\ ~IsLastSlot(MaxBarsOf(header), call.slot)) =>
        /\ ret.kind = "Memory64"
        /\ ret.address = U64(RawOfNextSlot, ClearLow4(RawOfSlot))
        /\ ret.prefetchable = ((Lo(RawOfSlot) \div 8) % 2 = 1)

\* C12: when the raw dword of the last slot of the header (slot 5 of an endpoint,
\* slot 1 of a bridge) is a 64-bit memory BAR, bar and bar_base_only return None,
\* issue no write_dword, and access no dword outside the BAR array.
C12_Memory64InLastSlot ==
    (DecodedSlot /\ RawIsMemory64 /\ call.slot = MaxBarsOf(header) - 1) =>
        /\ ret = BarNone
        /\ NoWriteDword
        /\ regs = pre
        /\ \A i \in 1..Len(log) :
              log[i][2] >= BarOffset(0) /\ log[i][2] < BarOffset(MaxBarsOf(header))

C12_Witness ==
    /\ call.op = "bar" /\ header = "endpoint" /\ call.slot = 5
    /\ RawOfSlot = U32(\hC000, \h000C)
    /\ ret = BarNone
    /\ log = <<Rd(BarOffset(5), U32(\hC000, \h000C))>>

WriteBarDecodesNone ==
    \/ call.slot >= MaxBarsOf(header)
    \/ RawIsMemory64 /\ call.slot = MaxBarsOf(header) - 1
    \/ RawIsMemory32 /\ Readback32 = U32Zero
WriteBarDecodesNarrow ==
    /\ call.slot < MaxBarsOf(header)
    /\ \/ Lo(RawOfSlot) % 2 = 1
       \/ RawIsMemory32 /\ Readback32 # U32Zero
ValueOver32Bits == call.value[1] # U32Zero

\* C14: a write_bar that does not fail fatally returns Err(NoSuchBar) when the slot
\* is out of range or decodes to None, Err(InvalidValue) when the slot decodes as
\* Memory32 or Io and the value is above 0xFFFFFFFF, and Ok otherwise.
C14_WriteBarResult ==
    (call.op = "write_bar" /\ ret.kind # "panic") =>
        ret = IF WriteBarDecodesNone THEN ErrNoSuchBar
              ELSE IF WriteBarDecodesNarrow /\ ValueOver32Bits THEN ErrInvalidValue
              ELSE WriteOk

C14_Witness ==
    /\ call.op = "write_bar" /\ call.slot < MaxBarsOf(header)
    /\ RawOfSlot = U32(0, \hE00D)
    /\ call.value = U64(U32(0, 2), U32(\hA000, \h4560))
    /\ ret = ErrInvalidValue

\* C15: when write_bar returns Ok, the last write_dword to the slot carries bits
\* 0-31 of the value; for a Memory64 BAR the last write_dword to the next slot
\* carries bits 32-63 and comes after it; for Memory32 and Io no other dword of
\* the header is left changed.
C15_WriteBarWrites ==
    (call.op = "write_bar" /\ ret = WriteOk) =>
        /\ LastWritten(BarOffset(call.slot)) = call.value[2]
        /\ RawIsMemory64 =>
              /\ LastWritten(BarOffset(call.slot + 1)) = call.value[1]
              /\ LastWriteIndex(BarOffset(call.slot))
                    < LastWriteIndex(BarOffset(call.slot + 1))
              /\ LastWriteIndex(BarOffset(call.slot + 1)) = Len(log)
        /\ ~RawIsMemory64 =>
              /\ BarOffset(call.slot + 1) \notin WrittenOffsets
              /\ \A o \in BarRegionOffsets \ {BarOffset(call.slot)} : regs[o] = pre[o]

C15_Witness ==
    /\ call.op = "write_bar" /\ ret = WriteOk
    /\ RawOfSlot = U32(\hC000, \h000C)
    /\ call.value = U64(U32(0, 2), U32(\hA000, \h4560))
    /\ LastWritten(BarOffset(call.slot)) = U32(\hA000, \h4560)
    /\ LastWritten(BarOffset(call.slot + 1)) = U32(0, 2)
    /\ regs[BarOffset(call.slot + 1)] = U32(0, 2)

-----------------------------------------------------------------------------
(* Claims about the capability list, checked under SpecCap *)

\* the byte of the device at byte offset p
ByteAt(p) == to_le_bytes(regs[p - (p % 4)])[(p % 4) + 1]
\* bit 4 of the status word at offset 0x06
CapabilityListBit == (ByteAt(6) \div 16) % 2 = 1
\* the capability pointer at offset 0x34
PointerByte == ByteAt(CapabilitiesPointerOffset)
\* the next byte of the header at o
NextByteOf(o) == ByteAt(o + 1)
\* more links than the device has places for a header
MaxLinks == Cardinality(PointerBytes)

RECURSIVE ListReachesEnd(_, _)
\* following next bytes from o leads to offset 0 within n links
ListReachesEnd(o, n) ==
    IF o = 0 THEN TRUE
    ELSE IF n = 0 THEN FALSE
    ELSE ListReachesEnd(NextByteOf(o), n - 1)

RECURSIVE ListAligned(_, _)
\* the first n offsets of the list from o are multiples of 4
ListAligned(o, n) ==
    IF o = 0 \/ n = 0 THEN TRUE
    ELSE o % 4 = 0 /\ ListAligned(NextByteOf(o), n - 1)

RECURSIVE ListLength(_)
\* the number of headers of a list from o that reaches offset 0
ListLength(o) == IF o = 0 THEN 0 ELSE 1 + ListLength(NextByteOf(o))

RECURSIVE ListOffset(_, _)
\* the offset of the i-th header of the list from o
ListOffset(o, i) == IF i <= 1 THEN o ELSE ListOffset(NextByteOf(o), i - 1)

\* the capability list is announced, not empty, ends at offset 0 and is aligned
ListWellFormed ==
    /\ CapabilityListBit
    /\ PointerByte # 0
    /\ ListReachesEnd(PointerByte, MaxLinks)
    /\ ListAligned(PointerByte, MaxLinks)

\* the capability list is announced, not empty and never reaches offset 0
ListCyclic ==
    /\ CapabilityListBit
    /\ PointerByte # 0
    /\ ~ListReachesEnd(PointerByte, MaxLinks)

\* C16 as claimed: for a list o1 -> ... -> ok -> 0 the i-th next() returns the
\* accessor at oi for i <= k, and None after that; a single header {id 0x05, next 0}
\* gives one item and then None.  The code returns the accessor at the next byte of
\* the header at o1 on every call and never moves from o1.
C16_IteratorYieldsEachHeader ==
    (call.op = "next" /\ ListWellFormed) =>
        ret = IF nexts <= ListLength(PointerByte)
              THEN OptSome(with_offset(acc, ListOffset(PointerByte, nexts)))
              ELSE OptNone

\* C17: with the capability-list bit of the status word clear, capabilities() gives
\* an iterator at offset 0, whatever the capability pointer holds, and next() on it
\* returns None without a read; with the bit set the iterator starts at the offset
\* in the capability pointer.
C17_CapabilityListBit ==
    /\ call.op = "capabilities" =>
        /\ iter = with_offset(acc, IF CapabilityListBit THEN PointerByte ELSE 0)
        /\ ret.acc = iter
    /\ (call.op = "next" /\ ~CapabilityListBit) =>
        /\ ret = OptNone
        /\ log = <<>>

C17_Witness ==
    /\ call.op = "next" /\ nexts = 1
    /\ ~CapabilityListBit
    /\ PointerByte = 64
    /\ iter.start_offset = 0
    /\ ret = OptNone
    /\ log = <<>>

\* C18 as claimed: for a list whose next bytes form a cycle that never reaches
\* offset 0, every next() returns Some.  With a first offset that is not a multiple
\* of 4 the read of the header fails on the alignment check instead.
C18_CycleAlwaysSome ==
    (call.op = "next" /\ ListCyclic) => ret.kind = "Some"

\* C18 as amended: the same for a first offset that is a multiple of 4.
C18_AlignedCycleAlwaysSome ==
    (call.op = "next" /\ ListCyclic /\ PointerByte % 4 = 0) => ret.kind = "Some"

C18_Witness ==
    /\ call.op = "next" /\ prev.op = "next" /\ nexts = 2
    /\ CapabilityListBit
    /\ PointerByte = 64 /\ NextByteOf(64) = 68 /\ NextByteOf(68) = 64
    /\ ret = OptSome(with_offset(acc, 68))

-----------------------------------------------------------------------------
(* Claims about the header type and the dispatch, checked under SpecType *)

\* the header-type byte of the function, at offset 0x0E of its header
HeaderTypeByte == to_le_bytes(pre[acc.start_offset + ConfigOffset])[HeaderTypeRawIndex]
HeaderTypeBits0To6 == HeaderTypeByte % 128

\* C19: header_type() returns for each of the 256 header-type bytes, and its result
\* is a function of bits 0-6 alone: 0 gives Endpoint, 1 PciPciBridge, 2 CardBusBridge,
\* any other 7-bit value t gives Err(t); bit 7 is has_multiple_functions().
C19_HeaderTypeTotal ==
    call.op = "header_type" =>
        /\ ret.kind = "classified"
        /\ ret.header_type =
              CASE HeaderTypeBits0To6 = 0 -> OkType("Endpoint")
                [] HeaderTypeBits0To6 = 1 -> OkType("PciPciBridge")
                [] HeaderTypeBits0To6 = 2 -> OkType("CardBusBridge")
                [] OTHER -> ErrType(HeaderTypeBits0To6)
        /\ ret.has_multiple_functions = (HeaderTypeByte >= 128)

C19_Witness ==
    /\ call.op = "header_type"
    /\ HeaderTypeByte = 131
    /\ ret.header_type = ErrType(3)
    /\ ret.has_multiple_functions

\* C20: EndpointHeader::from_header returns an accessor iff bits 0-6 of the
\* header-type byte are 0 and PciPciBridgeHeader::from_header iff they are 1; never
\* both for one byte; any other type gives None, not a failure; the accessor returned
\* has the region and start offset of the one passed; no write_dword is issued.
C20_FromHeaderDispatch ==
    /\ call.op = "from_header" =>
        /\ ret.kind \in {"Some", "None"}
        /\ ret.kind = "Some" <=>
              HeaderTypeBits0To6 = (IF call.ty = "Endpoint" THEN 0 ELSE 1)
        /\ ret.kind = "Some" =>
              /\ ret.acc.region = acc.region
              /\ ret.acc.start_offset = acc.start_offset
        /\ \A i \in 1..Len(log) : log[i][1] # "write_dword"
        /\ regs = pre
    /\ ~ /\ from_header(regs, acc, "Endpoint").res.kind = "Some"
         /\ from_header(regs, acc, "PciPciBridge").res.kind = "Some"

C20_Witness ==
    /\ call = [op |-> "from_header", ty |-> "PciPciBridge"]
    /\ HeaderTypeByte = 129
    /\ acc = Accessor(PciAddress(0, 2, 31, 7), 64)
    /\ ret = OptSome(acc)
    /\ log = <<Rd(76, ConfigDword(129))>>

-----------------------------------------------------------------------------
(* Claims about the MSI capability, checked under SpecMsi *)

\* the header of the capability on the device when the last call started
DeviceHeader == HeaderOfBytes(to_le_bytes(pre[MsiCapOffset]))
DeviceIsMsi == DeviceHeader.id = MsiCapId
DeviceIs64Bit == is_64bit(DeviceHeader.extension)
\* the dword of the device at MsiCapOffset + d when the last call started
DeviceDword(d) == pre[MsiCapOffset + d]
\* the channel returns what was last written, for every dword of the capability
MsiStoresWhatIsWritten == \A o \in MsiDwords : wmask[o] = U32Ones
\* the last call is read_info, the one before it a write_info that returned
ReadInfoOfWritten == call.op = "read_info" /\ prev.op = "write_info"
\* what the read_info of a written info must return
ReadsBackWritten ==
    /\ ret.kind = "info"
    /\ ret.info.header = prev.info.header
    /\ ret.info.addr[1] = prev.info.addr[1]
    /\ ret.info.data = prev.info.data
    /\ IF is_64bit(prev.info.header.extension)
       THEN ret.info.addr[2] = prev.info.addr[2]
       ELSE /\ ret.info.addr[2] = U32Zero
            /\ ret.info.mask_bits = U32Zero
            /\ ret.info.pending_bits = U32Zero

\* C21: read_info after write_info(info), with no writer in between and a channel
\* that returns what was last written, returns info's header, addr[0] and data (and
\* addr[1] on a 64-bit capability); on a 32-bit capability addr[1], mask_bits and
\* pending_bits read as 0 whatever info held.
C21_WriteInfoThenReadInfo ==
    (ReadInfoOfWritten /\ MsiStoresWhatIsWritten) => ReadsBackWritten

C21_Witness ==
    /\ ReadInfoOfWritten /\ MsiStoresWhatIsWritten
    /\ prev.info.header = CapabilityHeader(MsiCapId, 96, \h0011)
    /\ prev.info.mask_bits = U32(\hAAAA, \h5555)
    /\ ret.info = MsiCapability(CapabilityHeader(MsiCapId, 96, \h0011),
                                U32(\hFEE0, \h2000), U32Zero, U32(0, \h4055),
                                U32Zero, U32Zero)

\* C22: read_info on a capability with id 0x05 returns the id, next and control word
\* of the dword at c; with control bit 7 clear addr[0] = dword c+4, data = dword c+8,
\* the other fields 0, and no dword beyond c+8 is read; with bit 7 set addr[0..1] =
\* dwords c+4, c+8, data = c+0x0C, mask_bits = c+0x10, pending_bits = c+0x14.
C22_ReadInfoLayout ==
    (call.op = "read_info" /\ DeviceIsMsi) =>
        /\ ret.kind = "info"
        /\ ret.info.header = DeviceHeader
        /\ ret.info.addr[1] = DeviceDword(4)
        /\ IF ~DeviceIs64Bit
           THEN /\ ret.info.data = DeviceDword(8)
                /\ ret.info.addr[2] = U32Zero
                /\ ret.info.mask_bits = U32Zero
                /\ ret.info.pending_bits = U32Zero
                /\ \A i \in 1..Len(log) : log[i][2] <= MsiCapOffset + 8
           ELSE /\ ret.info.addr[2] = DeviceDword(8)
                /\ ret.info.data = DeviceDword(12)
                /\ ret.info.mask_bits = DeviceDword(16)
                /\ ret.info.pending_bits = DeviceDword(20)

C22_Witness ==
    /\ call.op = "read_info"
    /\ DeviceHeader = CapabilityHeader(MsiCapId, 96, \h0185)
    /\ ret.info.data = U32(\h3300, \h000C)
    /\ ret.info.pending_bits = U32(\h5500, \h0014)
    /\ Len(log) = 6

\* info does not fit the device: the id is not 0x05, or info's id, next or 64-bit
\* flag differs from the device's
InfoMismatch ==
    \/ ~DeviceIsMsi
    \/ call.info.header.id # DeviceHeader.id
    \/ call.info.header.next # DeviceHeader.next
    \/ is_64bit(call.info.header.extension) # DeviceIs64Bit

\* C23: write_info(info) fails fatally when info does not fit the device, before any
\* write_dword, so that the registers are unchanged.
C23_WriteInfoMismatchFails ==
    (call.op = "write_info" /\ InfoMismatch) =>
        /\ ret.kind = "panic"
        /\ NoWriteDword
        /\ regs = pre

C23_Witness ==
    /\ call.op = "write_info"
    /\ DeviceIsMsi /\ ~DeviceIs64Bit
    /\ call.info.header.id = MsiCapId
    /\ call.info.header.next = DeviceHeader.next
    /\ is_64bit(call.info.header.extension)
    /\ ret.kind = "panic"
    /\ Len(log) = 1
    /\ regs = pre

\* the dwords write_info writes on the device: c, c+4, c+8, and c+0x0C if 64-bit
InfoDwords ==
    {MsiCapOffset + 4 * i : i \in 0..(IF DeviceIs64Bit THEN 3 ELSE 2)}

\* C24: write_info and update_info never write the dwords at c+0x10 and c+0x14; a
\* call that returns has written exactly c, c+4, c+8 (and c+0x0C on a 64-bit
\* capability), and every other dword of the region is unchanged.
C24_WriteInfoFrame ==
    (call.op \in {"write_info", "update_info"}) =>
        /\ MsiCapOffset + 16 \notin WrittenOffsets
        /\ MsiCapOffset + 20 \notin WrittenOffsets
        /\ ret.kind = "unit" => WrittenOffsets = InfoDwords
        /\ ret.kind # "unit" => WrittenOffsets = {}
        /\ \A o \in MsiDwords \ InfoDwords : regs[o] = pre[o]

C24_Witness ==
    /\ call = [op |-> "update_info", f |-> "enable"]
    /\ DeviceIs64Bit
    /\ ret.kind = "unit"
    /\ WrittenOffsets = {64, 68, 72, 76}
    /\ regs[MsiCapOffset + 16] = U32(\h4400, \h0010)
    /\ regs[MsiCapOffset + 12] = U32(0, \h4041)

\* the type of the capability on the device: 0 not MSI, 1 32-bit, 2 64-bit
DeviceMsiType == IF ~DeviceIsMsi THEN 0 ELSE IF ~DeviceIs64Bit THEN 1 ELSE 2

\* C25: msi_cap_type returns 0, 1, 2 for not MSI, 32-bit, 64-bit;
\* MsiCapability32Bit::from_header returns an accessor exactly for type 1 and
\* MsiCapability64Bit::from_header exactly for type 2, never both.
C25_MsiCapType ==
    /\ call.op = "msi_cap_type" => ret = [kind |-> "usize", val |-> DeviceMsiType]
    /\ call.op = "from_header" =>
        /\ ret.kind \in {"Some", "None"}
        /\ ret.kind = "Some" <=> DeviceMsiType = call.N
        /\ ret.kind = "Some" => ret.acc = MsiAcc
    /\ ~ /\ MsiFromHeader(regs, MsiAcc, 1).res.kind = "Some"
         /\ MsiFromHeader(regs, MsiAcc, 2).res.kind = "Some"

C25_Witness ==
    /\ call = [op |-> "from_header", N |-> 2]
    /\ DeviceHeader.id = MsiCapId /\ DeviceIs64Bit
    /\ ret = OptSome(MsiAcc)

-----------------------------------------------------------------------------
(* Claims about the message control word, checked under SpecCtl *)

\* the bits of a control word outside bits 4-6
OutsideBits4To6(raw) == raw - GetBitsU16(raw, 4, 6) * 16

\* C26: after set_multiple_message_enable(requested) has returned,
\* multiple_message_enable() is the smaller of requested and
\* multiple_message_capable() of the word before, and every bit outside bits 4-6 is
\* as before.  (The call returns unless the capable count is 0b110 or 0b111.)
C26_SetMultipleMessageEnable ==
    call.op = "set_multiple_message_enable" =>
        IF multiple_message_capable(call.self).ok
        THEN /\ ret.kind = "ctrl"
             /\ multiple_message_enable(ret.raw)
                    = MinSupport(call.value, multiple_message_capable(call.self).val)
             /\ GetBitsU16(ret.raw, 4, 6) = multiple_message_enable(ret.raw)
             /\ OutsideBits4To6(ret.raw) = OutsideBits4To6(call.self)
        ELSE ret.kind = "panic"

\* requested Int32 with capable Int4 gives Int4; enable bit, 64-bit flag, masking
\* flag and reserved bits kept
C26_Witness ==
    /\ call = [op |-> "set_multiple_message_enable", self |-> \hFFF5, value |-> Int32]
    /\ ret = Ctl(\hFFA5)
    /\ multiple_message_enable(ret.raw) = 2

-----------------------------------------------------------------------------
(* Claim about bar_base_only against bar, checked under SpecBar *)

\* what bar returns for the slot of the last call on the registers that call started
\* from, built with or without overflow checks
BarOfSameSlot(overflow_checks) ==
    bar(pre, wmask, MaxBarsOf(header), call.slot, overflow_checks).res
IsBar(b) == b.kind \in {"Io", "Memory32", "Memory64"}
\* the same variant, the same port or address, the same prefetchable flag
SameDecode(x, b) ==
    /\ x.kind = b.kind
    /\ b.kind = "Io" => x.port = b.port
    /\ b.kind \in {"Memory32", "Memory64"} =>
        x.address = b.address /\ x.prefetchable = b.prefetchable
\* a size of 0 in the type of the variant's size
SizeIsZero(x) ==
    /\ x.kind = "Memory32" => x.size = U32Zero
    /\ x.kind = "Memory64" => x.size = U64(U32Zero, U32Zero)

\* C29: bar_base_only(slot) returns the variant, the address or port and the
\* prefetchable flag that bar(slot) decodes from the same raw dwords (what bar
\* returns whenever it returns a Bar), the size always 0; it returns None for
\* slot >= MAX_BARS and for a 64-bit BAR in the last slot; it issues no write_dword.
C29_BarBaseOnlyDecodesAsBar ==
    call.op = "bar_base_only" =>
        /\ NoWriteDword
        /\ regs = pre
        /\ call.slot >= MaxBarsOf(header) => ret = BarNone
        /\ (DecodedSlot /\ RawIsMemory64 /\ call.slot = MaxBarsOf(header) - 1)
               => ret = BarNone
        /\ SizeIsZero(ret)
        /\ \A overflow_checks \in BOOLEAN :
              IsBar(BarOfSameSlot(overflow_checks))
                  => SameDecode(ret, BarOfSameSlot(overflow_checks))
        /\ DecodedSlot =>
              /\ get_bit(RawOfSlot, 0) => ret.kind = "Io"
              /\ RawIsMemory32 => ret.kind = "Memory32"
              /\ (RawIsMemory64 /\ call.slot < MaxBarsOf(header) - 1)
                     => ret.kind = "Memory64"

C29_Witness ==
    /\ call.op = "bar_base_only"
    /\ ret.kind = "Memory32"
    /\ ret.prefetchable
    /\ ret.size = U32Zero
    /\ BarOfSameSlot(TRUE).kind = "Memory32"
    /\ BarOfSameSlot(TRUE).address = ret.address
    /\ BarOfSameSlot(TRUE).size # U32Zero
    /\ BarOfSameSlot(TRUE).prefetchable

-----------------------------------------------------------------------------
(* Claim about the command/status dword, checked under SpecCmd *)

\* the command and the status word of the device before and after the last call
CommandBefore == Lo(pre[CmdStsOffset])
StatusBefore == Hi(pre[CmdStsOffset])
CommandAfter == Lo(regs[CmdStsOffset])
StatusAfter == Hi(regs[CmdStsOffset])

\* C30: on a device with write-1-to-clear status bits, read of the dword at 0x04,
\* set_command_preserving_status(f), write back leaves every status bit as it was and
\* makes the command word f(command); with set_command(f) instead the write clears
\* every write-1-to-clear status bit that read as 1 (all of them when every status
\* bit is write-1-to-clear).  Either way one read_dword, one write_dword, and no
\* other dword changes.
C30_CommandWritePreservesStatus ==
    (call.op \in {"set_command_preserving_status", "set_command"}) =>
        /\ CommandAfter = ApplyCommand(call.f, CommandBefore)
        /\ \A o \in CmdDwords \ {CmdStsOffset} : regs[o] = pre[o]
        /\ Len(log) = 2
        /\ log[1] = Rd(CmdStsOffset, pre[CmdStsOffset])
        /\ log[2][1] = "write_dword" /\ log[2][2] = CmdStsOffset
        /\ IF call.op = "set_command_preserving_status"
           THEN /\ StatusAfter = StatusBefore
                /\ Hi(log[2][3]) = 0
           ELSE /\ BitAnd(StatusAfter, StatusW1C) = 0
                /\ StatusAfter = StatusBefore - BitAnd(StatusBefore, StatusW1C)
                /\ StatusW1C = \hFFFF => StatusAfter = 0

\* status 0xF910 survives the preserving update and is cleared by set_command
C30_Witness ==
    /\ prev.op = "set_command_preserving_status"
    /\ call = [op |-> "set_command", f |-> "bus_master"]
    /\ StatusW1C = \hFFFF
    /\ StatusBefore = \hF910
    /\ StatusAfter = 0
    /\ CommandAfter = \h0407

-----------------------------------------------------------------------------
(* Claim about the BAR probe under interleaving, checked under SpecProbe *)

\* what the slot reads as while it holds the probe pattern (the read-only bits of the
\* slot never change)
ProbeValue == write_dword(regs, wmask, ProbeOffset, ProbeLow)[ProbeOffset]
\* what the slot reads as once value is written to it
Configured(value) == write_dword(regs, wmask, ProbeOffset, value)[ProbeOffset]

ByOther(i) == log[i][4] = "other"
IsProbeWrite(i) == log[i] = WrBy("bar", ProbeOffset, ProbeLow)
IsRestoreWrite(i) ==
    log[i][4] = "bar" /\ log[i][1] = "write_dword" /\ log[i][3] # ProbeLow
IsOtherWrite(i) == ByOther(i) /\ log[i][1] = "write_dword"
\* transaction j falls between the probe write and the restore write
InProbeWindow(j) ==
    \E i \in 1..(j - 1) :
        IsProbeWrite(i) /\ \A k \in (i + 1)..(j - 1) : ~IsRestoreWrite(k)
\* the other caller's read j returned the probe readback
ReadProbeReadback(j) ==
    ByOther(j) /\ log[j][1] = "read_dword" /\ log[j][3] = ProbeValue
\* the other caller's last write, j, was followed by the restore and the slot does
\* not hold what was written
WriteLost(j) ==
    /\ IsOtherWrite(j)
    /\ \A k \in (j + 1)..Len(log) : ~IsOtherWrite(k)
    /\ \E k \in (j + 1)..Len(log) : IsRestoreWrite(k)
    /\ regs[ProbeOffset] # Configured(log[j][3])

\* C27: when every whole call runs under mutual exclusion, no read_dword of the
\* other caller returns the probe readback and no write_dword of the other caller
\* is undone by the restore; without it both happen (the witness), the read only
\* between the probe write and the restore write.
C27_ProbeNeedsMutualExclusion ==
    /\ procs.locked =>
          \A j \in 1..Len(log) : ~ReadProbeReadback(j) /\ ~WriteLost(j)
    /\ \A j \in 1..Len(log) : ReadProbeReadback(j) => InProbeWindow(j)

\* the other caller reads the probe readback 0xFFFFF000 and then writes 0xD0000000
\* inside the window; the restore puts 0xE0001000 back
C27_Witness ==
    /\ ~procs.locked
    /\ procs.prober.pc = "done"
    /\ Len(log) = 6
    /\ IsProbeWrite(2)
    /\ ReadProbeReadback(4) /\ log[4][3] = U32(\hFFFF, \hF008)
    /\ log[5] = WrBy("other", ProbeOffset, U32(\hD000, 0))
    /\ WriteLost(5) /\ InProbeWindow(5)
    /\ IsRestoreWrite(6)
    /\ regs[ProbeOffset] = U32(\hE000, \h1008)
    /\ ret = Memory32(U32(\hE000, \h1000), U32(0, \h1000), TRUE)

-----------------------------------------------------------------------------
(* Claim about a multi-dword access under interleaving, checked under SpecTear *)

\* the field before the write and after it, as read() returns them
FieldBefore == AccRead(pre, acc.start_offset, 4 * TearDwords).val
FieldAfter == procs.writer.buf
ReadReturned == ret.kind = "value"
\* bytes 4k+1..4k+4 of a value of the field
DwordOfValue(val, k) == SubSeq(val, 4 * k + 1, 4 * k + 4)
\* the value read is neither the field before the write nor the field after it
TornRead == ReadReturned /\ ret.val # FieldBefore /\ ret.val # FieldAfter

\* C28: an aligned read() of a field of two or more dwords that interleaves with an
\* aligned write() of the same field can return a value that is neither the field
\* before the write nor the field after it (the witness); every dword of the value
\* read is then the old or the new dword of its position, and no such value is
\* read when the two calls exclude each other.
C28_MultiDwordReadTears ==
    /\ ReadReturned =>
          \A k \in 0..(TearDwords - 1) :
              DwordOfValue(ret.val, k) \in
                  {DwordOfValue(FieldBefore, k), DwordOfValue(FieldAfter, k)}
    /\ procs.locked => ~TornRead

\* the reader takes dword 0 before the write and dword 1 after it
C28_Witness ==
    /\ ~procs.locked
    /\ TornRead
    /\ procs.writer.i = TearDwords
    /\ DwordOfValue(ret.val, 0) = DwordOfValue(FieldBefore, 0)
    /\ DwordOfValue(ret.val, 1) = DwordOfValue(FieldAfter, 1)
    /\ DwordOfValue(ret.val, 1) = to_le_bytes(U32Ones)
    /\ log[1][4] = "reader" /\ log[2][4] = "writer"

-----------------------------------------------------------------------------
(* Claim about the order of the writes of write_info, checked under SpecMsi *)

\* the dword that carries a header
DwordOfHeader(h) == from_le_bytes(BytesOfHeader(h))

\* C34: a write_info that returns has issued, in this order, the read of the device
\* header at c, then the writes of info's header dword at c, of addr[0] at c+4, of
\* addr[1] at c+8 on a 64-bit capability only, and of data (at c+8, or c+0x0C on a
\* 64-bit capability): ascending offsets, the header read before the first write.
C34_WriteInfoOrder ==
    (call.op = "write_info" /\ ret.kind = "unit") =>
        log = << Rd(MsiCapOffset, pre[MsiCapOffset]),
                 Wr(MsiCapOffset, DwordOfHeader(call.info.header)),
                 Wr(MsiCapOffset + 4, call.info.addr[1]) >>
              \o (IF DeviceIs64Bit
                  THEN << Wr(MsiCapOffset + 8, call.info.addr[2]),
                          Wr(MsiCapOffset + 12, call.info.data) >>
                  ELSE << Wr(MsiCapOffset + 8, call.info.data) >>)

C34_Witness ==
    /\ call.op = "write_info" /\ ret.kind = "unit"
    /\ DeviceIs64Bit
    /\ Len(log) = 5
    /\ log[1][1] = "read_dword"
    /\ log[2] = Wr(64, U32(\h00A1, \h6005))
    /\ log[3] = Wr(68, U32(\hFEE0, \h2000))
    /\ log[4] = Wr(72, U32(0, 1))
    /\ log[5] = Wr(76, U32(0, \h4055))

-----------------------------------------------------------------------------
(* Claim about fatal failures on the control word, checked under SpecCtl *)

\* C35: set_multiple_message_enable(requested) returns for every control word and
\* every requested value, the reserved encodings 0b110 and 0b111 of the capable
\* field included: it clamps and never fails.
C35_SetterNeverFails ==
    call.op = "set_multiple_message_enable" =>
        /\ ret.kind = "ctrl"
        /\ multiple_message_capable(call.self).ok

-----------------------------------------------------------------------------
(* Claims about the probe of bar and about write_bar, checked under SpecBar *)

\* position in the log of the first write_dword of the call to o
FirstWriteIndex(o) ==
    CHOOSE i \in 1..Len(log) : IsWriteTo(i, o) /\ \A j \in 1..(i - 1) : ~IsWriteTo(j, o)
\* the probe pattern of a slot offset: 0xFFFFFFF0 for the slot of the call,
\* 0xFFFFFFFF for the slot after it
ProbePatternOf(o) ==
    IF o = BarOffset(call.slot) THEN U32(\hFFFF, \hFFF0) ELSE U32(\hFFFF, \hFFFF)
\* the dword the restore of a slot offset carries: the address bits of the raw
\* dword for the slot of the call, the raw dword for the slot after it
RestoreValueOf(o) ==
    IF o = BarOffset(call.slot) THEN ClearLow4(RawOfSlot) ELSE RawOfNextSlot

\* C32: however bar(slot) ends (a Bar, None, or a fatal failure), every slot it
\* wrote was written first with the probe pattern and then again, by the same call:
\* the last write_dword to the slot is the restore, after the probe write.
C32_ProbeIsAlwaysFollowedByRestore ==
    call.op = "bar" =>
        /\ WrittenOffsets \subseteq {BarOffset(call.slot), BarOffset(call.slot + 1)}
        /\ \A o \in WrittenOffsets :
              /\ log[FirstWriteIndex(o)][3] = ProbePatternOf(o)
              /\ LastWriteIndex(o) > FirstWriteIndex(o)
              /\ LastWritten(o) = RestoreValueOf(o)

\* the None early return on a zero readback, after the restore
C32_Witness ==
    /\ call.op = "bar"
    /\ ret = BarNone
    /\ RawIsMemory32
    /\ Len(log) = 4
    /\ log[2] = Wr(BarOffset(call.slot), U32(\hFFFF, \hFFF0))
    /\ log[3][3] = U32Zero
    /\ log[4] = Wr(BarOffset(call.slot), U32Zero)

\* a 64-bit memory BAR in a slot that is not the last: bar probes both slots
Probed64 ==
    /\ call.op = "bar" /\ DecodedSlot /\ RawIsMemory64
    /\ ~IsLastSlot(MaxBarsOf(header), call.slot)
\* the two readbacks of a 64-bit probe, the low one with bits 0-3 cleared
MaskedReadbackLow64 == ClearLow4(log[5][3])
ReadbackHigh64 == log[6][3]
\* 1 << k as a 64-bit size, for k < 64
OneShl64(k) == IF k < 32 THEN U64(U32Zero, Shl1U32(k)) ELSE U64(Shl1U32(k - 32), U32Zero)
\* the transactions of a 64-bit probe, in order
ProbeOrder64 ==
    /\ Len(log) = 8
    /\ IsReadOf(1, BarOffset(call.slot)) /\ IsReadOf(2, BarOffset(call.slot + 1))
    /\ log[3] = Wr(BarOffset(call.slot), U32(\hFFFF, \hFFF0))
    /\ log[4] = Wr(BarOffset(call.slot + 1), U32(\hFFFF, \hFFFF))
    /\ IsReadOf(5, BarOffset(call.slot)) /\ IsReadOf(6, BarOffset(call.slot + 1))
    /\ IsWriteTo(7, BarOffset(call.slot)) /\ IsWriteTo(8, BarOffset(call.slot + 1))

\* C36 as claimed: for a 64-bit memory BAR the transactions are read low, read high,
\* write 0xFFFFFFF0 low, write 0xFFFFFFFF high, read low, read high, restore low,
\* restore high, and a bar that returns gives size = 1 << trailing zeros of the
\* masked low readback if that is not zero, and 1 << (32 + trailing zeros of the
\* high readback) otherwise.  The code shifts an i32 literal in the first case, so a
\* masked low readback of 0x80000000 gives 0xFFFFFFFF80000000.
C36_Memory64Size ==
    Probed64 =>
        /\ ProbeOrder64
        /\ ret.kind = "Memory64" =>
              ret.size = IF MaskedReadbackLow64 # U32Zero
                         THEN OneShl64(trailing_zeros(MaskedReadbackLow64))
                         ELSE OneShl64(32 + trailing_zeros(ReadbackHigh64))

\* the shift amount of the size computation of the probe just made, and the width
\* of the size type
Probed32 == call.op = "bar" /\ DecodedSlot /\ RawIsMemory32 /\ Readback32 # U32Zero
ShiftAmount ==
    IF Probed32 THEN trailing_zeros(ClearLow4(Readback32))
    ELSE IF MaskedReadbackLow64 # U32Zero THEN trailing_zeros(MaskedReadbackLow64)
    ELSE 32 + trailing_zeros(ReadbackHigh64)
SizeWidth == IF Probed32 THEN 32 ELSE 64
\* a u32 or a u64 with exactly one bit set
IsPowerOfTwoU16(n) == \E k \in 0..15 : n = 2 ^ k
IsPowerOfTwoU32(d) ==
    \/ Hi(d) = 0 /\ IsPowerOfTwoU16(Lo(d))
    \/ Lo(d) = 0 /\ IsPowerOfTwoU16(Hi(d))
IsPowerOfTwoSize(size) ==
    IF Probed32 THEN IsPowerOfTwoU32(size)
    ELSE \/ size[1] = U32Zero /\ IsPowerOfTwoU32(size[2])
         \/ size[2] = U32Zero /\ IsPowerOfTwoU32(size[1])

\* C37 as claimed: whenever bar(slot) computes a size, the shift amount is below the
\* width of the size type, the call does not fail, and the size returned is a
\* non-zero power of two.  A readback that is zero once masked gives a shift by 32
\* (Memory32) or by 64 (Memory64).
C37_ShiftBelowWidth ==
    (Probed32 \/ Probed64) =>
        /\ ShiftAmount < SizeWidth
        /\ ret.kind # "panic"
        /\ IsPowerOfTwoSize(ret.size)

\* C38 as claimed: when write_bar returns Err(NoSuchBar) or Err(InvalidValue), every
\* BAR dword of the header holds what it held before the call, and no write_dword
\* of the call carries the value.  The decode inside write_bar is bar, whose restore
\* writes the address with bits 0-3 cleared.
C38_FailedWriteBarLeavesNoTrace ==
    (call.op = "write_bar" /\ ret.kind = "Err") =>
        /\ \A o \in BarRegionOffsets : regs[o] = pre[o]
        /\ \A i \in 1..Len(log) :
              log[i][1] = "write_dword" => log[i][3] # ValueBits0To31(call.value)

-----------------------------------------------------------------------------
(* Claim about offsets that are not multiples of 4 in the capability list, checked under SpecCap *)

\* a pointer byte or next byte that is in use and is not a multiple of 4
Misaligned(b) == b # 0 /\ b % 4 # 0

\* C39 as claimed: with the capability-list bit set, a capability pointer that is
\* not zero and not a multiple of 4 makes the first next() fail on the alignment
\* check of the 4-byte header read, and a next byte of that kind in the first
\* header makes the next() after the one that read it fail in the same way.  The
\* code does the first; next() never moves to the offset in the next byte, so the
\* second next() reads the first header again and returns Some.
C39_MisalignedOffsetFails ==
    /\ (call.op = "next" /\ CapabilityListBit /\ Misaligned(PointerByte)) =>
        ret = BarPanic
    /\ (/\ call.op = "next" /\ prev.op = "next" /\ nexts = 2
        /\ CapabilityListBit
        /\ PointerByte # 0 /\ ~Misaligned(PointerByte)
        /\ Misaligned(NextByteOf(PointerByte))) =>
        ret = BarPanic

-----------------------------------------------------------------------------
(* Claim about the offsets of the interrupt and limit fields, checked under SpecField *)

\* the byte of the device at byte offset p, now and before the call
HeaderByte(p) == to_le_bytes(regs[p - (p % 4)])[(p % 4) + 1]
HeaderByteBefore(p) == to_le_bytes(pre[p - (p % 4)])[(p % 4) + 1]

\* where the header diagrams draw the field
DrawnOffset(name) ==
    CASE name = "interrupt_line" -> 60
      [] name = "interrupt_pin" -> 61
      [] name = "min_grant" -> 62
      [] name = "max_latency" -> 63

\* C31 as claimed: a read of interrupt_line returns the byte at 0x3C, of
\* interrupt_pin the byte at 0x3D, of min_grant and max_latency the bytes at 0x3E
\* and 0x3F, and a write of the field on a device that stores what is written
\* changes that byte and no other.  Intr declares interrupt_pin first, so the code
\* has interrupt_pin at 0x3C and interrupt_line at 0x3D.
C31_FieldOffsets ==
    /\ call.op = "read" =>
        ret.val = <<HeaderByteBefore(DrawnOffset(call.path[2]))>>
    /\ (call.op = "write" /\ \A o \in LastDwords : wmask[o] = U32Ones) =>
        \A p \in 56..63 :
            HeaderByte(p) = IF p = DrawnOffset(call.path[2]) THEN call.value
                            ELSE HeaderByteBefore(p)

-----------------------------------------------------------------------------
(* Claim about update, update_info and sub-dword writes under interleaving, checked under SpecUpd *)

\* the positions in the log of the reads and of the writes of a caller on dword o
ReadsOf(who, o) ==
    {i \in 1..Len(log) : log[i][4] = who /\ log[i][1] = "read_dword" /\ log[i][2] = o}
WritesOf(who, o) ==
    {i \in 1..Len(log) : log[i][4] = who /\ log[i][1] = "write_dword" /\ log[i][2] = o}
\* every position of is is before every position of js
AllBefore(is, js) == \A i \in is, j \in js : i < j

\* both calls have returned
BothDone == procs.a.phase = "done" /\ procs.b.phase = "done"
\* the device after the two calls one after the other, in both orders
SerialOutcomes ==
    {WholeCall(prev, WholeCall(call, pre, wmask), wmask),
     WholeCall(call, WholeCall(prev, pre, wmask), wmask)}
\* the calls have returned and the device is as after neither order of the two
LostUpdate == BothDone /\ regs \notin SerialOutcomes

\* the other caller wrote dword o after the reads of who and before its writes
WroteInBetween(who, o) ==
    /\ ReadsOf(who, o) # {}
    /\ WritesOf(who, o) # {}
    /\ WritesOf(OtherCaller(who), o) # {}
    /\ AllBefore(ReadsOf(who, o), WritesOf(OtherCaller(who), o))
    /\ AllBefore(WritesOf(OtherCaller(who), o), WritesOf(who, o))

\* C33: update(f) and update_info(f) issue all their reads before their first
\* write; a write of another caller to a dword that lands after the reads of a call
\* and before its write of that dword is overwritten: the dword is then as the call
\* alone would have left it; the same holds for two sub-dword write() calls to
\* different bytes of one dword, where the bytes of one caller are then as before
\* its write (the witness); when the calls exclude each other the device is as
\* after the two calls in one order or the other.
C33_UpdateIsNotAtomic ==
    /\ \A who \in UpdCallers :
          CallOf(who).op \in {"update", "update_info"} =>
              \A i, j \in 1..Len(log) :
                  (/\ log[i][4] = who /\ log[i][1] = "write_dword"
                   /\ log[j][4] = who /\ log[j][1] = "read_dword") => j < i
    /\ \A who \in UpdCallers, o \in DOMAIN regs :
          WroteInBetween(who, o) => regs[o] = WholeCall(CallOf(who), pre, wmask)[o]
    /\ procs.locked => ~LostUpdate

\* update(f) of a u32 field by two callers: b's write lands between a's read and
\* a's write and is lost
C33_Witness ==
    /\ ~procs.locked
    /\ call.op = "update" /\ call.size = 4
    /\ LostUpdate
    /\ WroteInBetween("a", SharedOffset)
    /\ to_le_bytes(regs[SharedOffset])[1] = 161
    /\ to_le_bytes(regs[SharedOffset])[2] = to_le_bytes(pre[SharedOffset])[2]
    /\ to_le_bytes(pre[SharedOffset])[2] # 178

====
